---- MODULE Spec2Model ----
(***************************************************************************)
(* Model of pds-pre-view (Tauri + React PSD viewer): the PSD layer-tree    *)
(* builder (psd-parser.ts), the flat and the hierarchical export pipeline  *)
(* (exportUtils.ts, hierarchicalExport.ts) and the export flows of App.tsx.*)
(*                                                                         *)
(* Text is modelled as a sequence of one-character strings, a raster (a    *)
(* canvas or a data URL) by the identity of the document node(s) it was    *)
(* painted from together with its MIME type.                               *)
(***************************************************************************)
EXTENDS Integers, Sequences, FiniteSets, TLC

VARIABLES
    doc,          \* the decoded PSD: psd.children, a forest of ag-psd layers
    tree,         \* extractLayerTree(...).tree   (usePsdParser: layerTree)
    layers,       \* extractLayerTree(...).layers (usePsdParser: layers)
    psdLayers,    \* extractPSDLayers(...).layers (flattenLayers of the document)
    parsed,       \* which of the two extractions have run
    call,         \* the export call in progress: entry point, arguments, position
    tasks,        \* nodes / layers the running export has still to visit
    cur,          \* the collaborator operation the export is awaiting
    tally,        \* the running success / failed counters
    log,          \* every collaborator operation issued so far, in order
    result,       \* what the export call returned
    ui,           \* App.tsx state: selection, hidden set, export target, alerts
    arg,          \* the argument of a pure function under test
    ret,          \* what the function returned for it
    disk,         \* the folders and files the export calls left at the destination
    runs,         \* the export calls that returned earlier: result and disk then
    preview,      \* the generateGroupPreview call: its leaves, loads, canvas, result
    hook,         \* usePsdParser: its state and the parsePsdFile calls started
    drag          \* useFileUpload: dragCounterRef.current and isDragging

\* no pure function is under test; it has not returned
NoArg == [fn |-> "none"]
NoRet == [fn |-> "none"]

\* usePsdParser after construction. layers, layerTree, psdInfo, psdPreviewUrl
\* and error hold the number of the call that set them, 0 when empty / null;
\* calls[c] tells how the c-th parsePsdFile call ended
IdleHook == [layers |-> 0, layerTree |-> 0, psdInfo |-> 0, psdPreviewUrl |-> 0,
             error |-> 0, loading |-> FALSE, calls |-> <<>>]

\* useFileUpload after construction
IdleDrag == [counter |-> 0, isDragging |-> FALSE]

\* generateGroupPreview has not been called
NoPreview == [phase |-> "idle", group |-> -1, hidden |-> {}, layers |-> <<>>,
              minLeft |-> 0, minTop |-> 0, width |-> 0, height |-> 0,
              at |-> 0, loads |-> <<>>, drawn |-> <<>>,
              ret |-> [mime |-> "null", owner |-> -1, drawn |-> <<>>]]

parseVars == <<doc, tree, layers, psdLayers, parsed>>
exportVars == <<call, tasks, cur, tally, log, result>>
pureVars == <<arg, ret>>
diskVars == <<disk, runs>>
viewVars == <<preview, hook, drag>>
vars == <<doc, tree, layers, psdLayers, parsed, call, tasks, cur, tally, log, result, ui,
          arg, ret, disk, runs, preview, hook, drag>>

(***************************************************************************)
(* Bounds of the model                                                     *)
(***************************************************************************)
\* largest number of layer/group nodes in a document of the parser runs
MaxNodes == 3
\* largest number of layer/group nodes in a document handed to an export run
MaxExportNodes == 2
\* largest number of layer/group nodes in a document opened in the application
MaxAppNodes == 2
\* names given to sanitizeFileName have at most this many characters
MaxNameLen == 3
\* the images given to encodeTga pixel by pixel are at most this wide and high
MaxSide == 2
\* the JPEG payloads given to encodeBlp have at most this many bytes
MaxPayloadLen == 2
\* largest number of layer/group nodes in a document of the compositing runs
MaxCompositeNodes == 3
\* parsePsdFile is called at most this many times
MaxParses == 2
\* the drag counter is followed this far above and below 0
MaxDragDepth == 2
\* the lists given to calculateGroupBounds have at most this many layers
MaxBoundsLayers == 3
\* largest number of layer/group nodes in a document of the preview runs
MaxPreviewNodes == 3

(***************************************************************************)
(* Small helpers                                                           *)
(***************************************************************************)
Min(a, b) == IF a < b THEN a ELSE b
Max(a, b) == IF a > b THEN a ELSE b

\* the absent value of an optional raster (canvasToDataURL(undefined) is null)
NoUrl == [mime |-> "null", owner |-> -1, drawn |-> <<>>]

\* the text "[Group] " that flattenLayers / flattenTree put before a group name
GroupPrefix == <<"[", "G", "r", "o", "u", "p", "]", " ">>

(***************************************************************************)
(* Documents: the forests the PSD decoder can hand over                    *)
(***************************************************************************)
\* bounding boxes: none, a unit square, a line (width without height), an
\* offset rectangle
ZeroBox == [left |-> 0, top |-> 0, right |-> 0, bottom |-> 0]
UnitBox == [left |-> 0, top |-> 0, right |-> 1, bottom |-> 1]
LineBox == [left |-> 0, top |-> 0, right |-> 2, bottom |-> 0]
FarBox  == [left |-> 1, top |-> 1, right |-> 3, bottom |-> 2]

\* One ag-psd layer. canvas: the layer has a raster; its size is that of the
\* bounding box when the box has an area. id: the identity of the node.
PsdLayer(name, hidden, visible, type, canvas, text, box, opacity) ==
    [id |-> 0, name |-> name, hidden |-> hidden, visible |-> visible,
     type |-> type, canvas |-> canvas, text |-> text,
     canvasWidth |-> IF box.right > box.left /\ box.bottom > box.top
                     THEN box.right - box.left ELSE 1,
     canvasHeight |-> IF box.right > box.left /\ box.bottom > box.top
                      THEN box.bottom - box.top ELSE 1,
     left |-> box.left, top |-> box.top, right |-> box.right, bottom |-> box.bottom,
     opacity |-> opacity, children |-> <<>>]

\* Leaves of the parser runs: every combination of raster and box for a
\* visible layer, a text-only layer, an unnamed layer, and the two ways a
\* layer is hidden at the source.
ParserLeaves ==
    {PsdLayer(<<"a">>, FALSE, TRUE, "layer", c, FALSE, b, 255) :
        c \in BOOLEAN, b \in {ZeroBox, UnitBox, LineBox}}
    \cup {PsdLayer(<<"t">>, FALSE, TRUE, "text", FALSE, TRUE, ZeroBox, 255),
          PsdLayer(<<>>, FALSE, TRUE, "layer", TRUE, FALSE, UnitBox, 255),
          PsdLayer(<<"h">>, TRUE, TRUE, "layer", TRUE, FALSE, FarBox, 128),
          PsdLayer(<<"v">>, FALSE, FALSE, "layer", TRUE, FALSE, FarBox, 128)}

ParserGroups ==
    {PsdLayer(<<"g">>, FALSE, TRUE, "group", FALSE, FALSE, ZeroBox, 255),
     PsdLayer(<<"g">>, TRUE, TRUE, "group", FALSE, FALSE, ZeroBox, 255),
     PsdLayer(<<"g">>, FALSE, FALSE, "group", FALSE, FALSE, ZeroBox, 255)}

\* Leaves of the export runs: named visible layers with or without a raster.
ExportLeaves ==
    {PsdLayer(n, FALSE, TRUE, "layer", c, FALSE, UnitBox, 255) :
        n \in {<<"a">>, <<"b", "*">>}, c \in BOOLEAN}

ExportGroups ==
    {PsdLayer(<<"g">>, FALSE, TRUE, "group", FALSE, FALSE, ZeroBox, 255)}

\* all forests of exactly k nodes over the given leaf and group kinds;
\* ForestsWithFirst: those whose first tree has at least j nodes
RECURSIVE ForestsOfSize(_, _, _), ForestsWithFirst(_, _, _, _)
ForestsWithFirst(j, k, leaves, groups) ==
    IF j > k THEN {}
    ELSE LET firsts ==
                IF j = 1 THEN leaves \cup groups
                ELSE {[g EXCEPT !.children = cs] :
                        g \in groups, cs \in ForestsOfSize(j - 1, leaves, groups)}
         IN  {<<f>> \o rest : f \in firsts, rest \in ForestsOfSize(k - j, leaves, groups)}
             \cup ForestsWithFirst(j + 1, k, leaves, groups)

ForestsOfSize(k, leaves, groups) ==
    IF k = 0 THEN {<<>>} ELSE ForestsWithFirst(1, k, leaves, groups)

\* all forests of at most k nodes
RECURSIVE ForestsUpTo(_, _, _)
ForestsUpTo(k, leaves, groups) ==
    IF k = 0 THEN {<<>>}
    ELSE ForestsOfSize(k, leaves, groups) \cup ForestsUpTo(k - 1, leaves, groups)

\* number the nodes of a forest in document (pre-)order: the identity of a node
RECURSIVE Relabel(_, _)
Relabel(forest, start) ==
    IF forest = <<>> THEN [forest |-> <<>>, next |-> start]
    ELSE LET kids == Relabel(Head(forest).children, start + 1)
             rest == Relabel(Tail(forest), kids.next)
         IN  [forest |-> <<[Head(forest) EXCEPT !.id = start, !.children = kids.forest]>>
                           \o rest.forest,
              next |-> rest.next]

Documents(maxNodes, leaves, groups) ==
    {Relabel(f, 1).forest : f \in ForestsUpTo(maxNodes, leaves, groups)}

\* Leaves of the application runs: a layer with and one without a raster.
AppLeaves ==
    {PsdLayer(<<"a">>, FALSE, TRUE, "layer", c, FALSE, UnitBox, 255) : c \in BOOLEAN}

ParserDocuments == Documents(MaxNodes, ParserLeaves, ParserGroups)
AppDocuments == Documents(MaxAppNodes, AppLeaves, ExportGroups)
ExportDocuments == Documents(MaxExportNodes, ExportLeaves, ExportGroups)

(***************************************************************************)
(* psd-parser.ts: canvasToDataURL, buildLayerTree, flattenLayers,          *)
(* extractLayerTree                                                        *)
(***************************************************************************)
\* an alpha that is always opacity / 255
AlwaysDivided(opacity) == opacity

\* opacity > 1 ? opacity / 255 : opacity, as an integer scaled by 255
GlobalAlpha(opacity) == IF opacity > 1 THEN opacity ELSE opacity * 255

\* canvasToDataURL(child.canvas): a PNG data URL of the layer's own raster
LeafUrl(child) ==
    IF child.canvas
    THEN [mime |-> "png", owner |-> child.id,
          drawn |-> <<[id |-> child.id, x |-> 0, y |-> 0, alpha |-> 255]>>]
    ELSE NoUrl

\* item is kept as a visible leaf of a group
IsLeafContent(item) ==
    item.canvas \/ (item.right - item.left) > 0 \/ (item.bottom - item.top) > 0 \/ item.text

HasArea(item) == (item.right - item.left) > 0 /\ (item.bottom - item.top) > 0

\* a leaf gathering without the hidden / visible test
RECURSIVE getLeavesUnfiltered(_)
getLeavesUnfiltered(items) ==
    IF items = <<>> THEN <<>>
    ELSE LET item == Head(items)
             here == IF Len(item.children) > 0 THEN getLeavesUnfiltered(item.children)
                     ELSE IF IsLeafContent(item) THEN <<item>>
                     ELSE <<>>
         IN  here \o getLeavesUnfiltered(Tail(items))

RECURSIVE getVisibleLeaves(_)
getVisibleLeaves(items) ==
    IF items = <<>> THEN <<>>
    ELSE LET item == Head(items)
             here == IF item.hidden = TRUE \/ item.visible = FALSE THEN <<>>
                     ELSE IF Len(item.children) > 0 THEN getVisibleLeaves(item.children)
                     ELSE IF IsLeafContent(item) THEN <<item>>
                     ELSE <<>>
         IN  here \o getVisibleLeaves(Tail(items))

RECURSIVE FoldMin(_, _)
FoldMin(s, acc) == IF s = <<>> THEN acc ELSE FoldMin(Tail(s), Min(acc, Head(s)))

RECURSIVE FoldMax(_, _)
FoldMax(s, acc) == IF s = <<>> THEN acc ELSE FoldMax(Tail(s), Max(acc, Head(s)))

\* minLeft, minTop, maxRight, maxBottom and hasContent as the leaf loop leaves
\* them: taken over the kept leaves that have an area
LeafBounds(leafLayers) ==
    LET q == SelectSeq(leafLayers, HasArea)
    IN  IF q = <<>>
        THEN [hasContent |-> FALSE, minLeft |-> 0, minTop |-> 0, maxRight |-> 0, maxBottom |-> 0]
        ELSE [hasContent |-> TRUE,
              minLeft |-> FoldMin([i \in 1..Len(q) |-> q[i].left], q[1].left),
              minTop |-> FoldMin([i \in 1..Len(q) |-> q[i].top], q[1].top),
              maxRight |-> FoldMax([i \in 1..Len(q) |-> q[i].right], q[1].right),
              maxBottom |-> FoldMax([i \in 1..Len(q) |-> q[i].bottom], q[1].bottom)]

\* the draw calls of the compositing loop: one per kept leaf that has a canvas
DrawCalls(leafLayers, b) ==
    LET withCanvas == SelectSeq(leafLayers, LAMBDA l : l.canvas)
    IN  [i \in 1..Len(withCanvas) |->
            [id |-> withCanvas[i].id,
             x |-> withCanvas[i].left - b.minLeft,
             y |-> withCanvas[i].top - b.minTop,
             alpha |-> GlobalAlpha(withCanvas[i].opacity)]]

\* the composite of a group, as a PNG data URL
CompositeUrl(group, leafLayers, b) ==
    [mime |-> "png", owner |-> group.id, drawn |-> DrawCalls(leafLayers, b)]

JoinPath(parentPath, name) == IF parentPath # <<>> THEN parentPath \o <<"/">> \o name ELSE name

NoLayer ==
    [name |-> <<>>, type |-> "none", visible |-> FALSE, opacity |-> 0,
     left |-> 0, right |-> 0, top |-> 0, bottom |-> 0, width |-> 0, height |-> 0,
     imageUrl |-> NoUrl]

LeafWidth(child) == IF child.canvas THEN child.canvasWidth ELSE child.right - child.left
LeafHeight(child) == IF child.canvas THEN child.canvasHeight ELSE child.bottom - child.top

IsGroup(child) == Len(child.children) > 0 \/ child.type = "group"

\* the tree node buildLayerTree pushes for a group
GroupNode(child, nodePath, subTree, groupIndex) ==
    LET leafLayers == getVisibleLeaves(child.children)
        b == LeafBounds(leafLayers)
        groupImageUrl ==
            IF b.hasContent /\ (b.maxRight - b.minLeft) > 0 /\ (b.maxBottom - b.minTop) > 0
            THEN CompositeUrl(child, leafLayers, b)
            ELSE NoUrl
    IN  [name |-> child.name, path |-> nodePath, isGroup |-> TRUE,
         imageUrl |-> groupImageUrl,
         width |-> IF b.hasContent THEN b.maxRight - b.minLeft ELSE 0,
         height |-> IF b.hasContent THEN b.maxBottom - b.minTop ELSE 0,
         index |-> groupIndex,
         hasChildren |-> TRUE, children |-> subTree,
         hasLayer |-> FALSE, layer |-> NoLayer, src |-> child.id]

\* the tree node buildLayerTree pushes for a leaf
LeafNode(child, nodePath, currentIndex) ==
    LET layer == [name |-> child.name, type |-> child.type,
                  visible |-> child.visible # FALSE, opacity |-> child.opacity,
                  left |-> child.left, right |-> child.right,
                  top |-> child.top, bottom |-> child.bottom,
                  width |-> LeafWidth(child), height |-> LeafHeight(child),
                  imageUrl |-> LeafUrl(child)]
    IN  [name |-> child.name, path |-> nodePath, isGroup |-> FALSE,
         imageUrl |-> layer.imageUrl,
         width |-> layer.width, height |-> layer.height,
         index |-> currentIndex,
         hasChildren |-> FALSE, children |-> <<>>,
         hasLayer |-> TRUE, layer |-> layer, src |-> child.id]

LeafIsEmitted(child) ==
    child.name # <<>>
    /\ (child.canvas \/ LeafWidth(child) > 0 \/ LeafHeight(child) > 0 \/ child.text)

\* a tree builder that takes the index of a group before it descends
RECURSIVE buildLayerTreePreOrder(_, _, _)
buildLayerTreePreOrder(children, parentPath, index) ==
    IF children = <<>> THEN [tree |-> <<>>, index |-> index]
    ELSE LET child == Head(children)
             nodePath == JoinPath(parentPath, child.name)
             one ==
                IF child.hidden = TRUE THEN [tree |-> <<>>, index |-> index]
                ELSE IF IsGroup(child)
                THEN LET sub == buildLayerTreePreOrder(child.children, nodePath, index + 1)
                     IN  [tree |-> <<GroupNode(child, nodePath, sub.tree, index)>>,
                          index |-> sub.index]
                ELSE IF LeafIsEmitted(child)
                THEN [tree |-> <<LeafNode(child, nodePath, index)>>, index |-> index + 1]
                ELSE [tree |-> <<>>, index |-> index]
             rest == buildLayerTreePreOrder(Tail(children), parentPath, one.index)
         IN  [tree |-> one.tree \o rest.tree, index |-> rest.index]

\* buildLayerTree(children, parentPath, ctx): the tree and ctx.index afterwards
RECURSIVE buildLayerTree(_, _, _)
buildLayerTree(children, parentPath, index) ==
    IF children = <<>> THEN [tree |-> <<>>, index |-> index]
    ELSE LET child == Head(children)
             nodePath == JoinPath(parentPath, child.name)
             one ==
                IF child.hidden = TRUE THEN [tree |-> <<>>, index |-> index]
                ELSE IF IsGroup(child)
                THEN LET sub == buildLayerTree(child.children, nodePath, index)
                     IN  [tree |-> <<GroupNode(child, nodePath, sub.tree, sub.index)>>,
                          index |-> sub.index + 1]
                ELSE IF LeafIsEmitted(child)
                THEN [tree |-> <<LeafNode(child, nodePath, index)>>, index |-> index + 1]
                ELSE [tree |-> <<>>, index |-> index]
             rest == buildLayerTree(Tail(children), parentPath, one.index)
         IN  [tree |-> one.tree \o rest.tree, index |-> rest.index]

\* an entry of a flat layer list
Entry(name, type, isGroup, imageUrl, width, height, src) ==
    [name |-> name, type |-> type, isGroup |-> isGroup, imageUrl |-> imageUrl,
     width |-> width, height |-> height, src |-> src]

RECURSIVE getVisibleLeafLayersForGroup(_)
getVisibleLeafLayersForGroup(items) ==
    IF items = <<>> THEN <<>>
    ELSE LET item == Head(items)
             here == IF item.hidden = TRUE \/ item.visible = FALSE THEN <<>>
                     ELSE IF Len(item.children) > 0
                     THEN getVisibleLeafLayersForGroup(item.children)
                     ELSE IF IsLeafContent(item) THEN <<item>>
                     ELSE <<>>
         IN  here \o getVisibleLeafLayersForGroup(Tail(items))

\* leafLayers.length > 1 || (leafLayers.length === 1 && leafLayers[0].canvas === undefined)
shouldAddGroupPreview(leafLayers) ==
    Len(leafLayers) > 1 \/ (Len(leafLayers) = 1 /\ ~leafLayers[1].canvas)

\* flattenLayers(children): the flat list of extractPSDLayers
RECURSIVE flattenLayers(_)
flattenLayers(children) ==
    IF children = <<>> THEN <<>>
    ELSE LET child == Head(children)
             one ==
                IF child.hidden = TRUE \/ child.visible = FALSE THEN <<>>
                ELSE IF IsGroup(child)
                THEN LET subResult == flattenLayers(child.children)
                         leafLayers == getVisibleLeafLayersForGroup(child.children)
                         b == LeafBounds(leafLayers)
                         groupWidth == b.maxRight - b.minLeft
                         groupHeight == b.maxBottom - b.minTop
                     IN  IF b.hasContent /\ shouldAddGroupPreview(leafLayers)
                            /\ groupWidth > 0 /\ groupHeight > 0
                         THEN subResult \o
                              <<Entry(GroupPrefix \o child.name, "group", TRUE,
                                      CompositeUrl(child, leafLayers, b),
                                      groupWidth, groupHeight, child.id)>>
                         ELSE subResult
                ELSE IF LeafIsEmitted(child)
                THEN <<Entry(child.name, child.type, FALSE, LeafUrl(child),
                             LeafWidth(child), LeafHeight(child), child.id)>>
                ELSE <<>>
         IN  one \o flattenLayers(Tail(children))

\* flattenTree inside extractLayerTree: the tree in post-order, a group only
\* when it has a composite
RECURSIVE flattenTree(_)
flattenTree(nodes) ==
    IF nodes = <<>> THEN <<>>
    ELSE LET node == Head(nodes)
             one ==
                IF node.isGroup
                THEN flattenTree(node.children) \o
                     (IF node.imageUrl # NoUrl
                      THEN <<Entry(GroupPrefix \o node.name, "group", TRUE, node.imageUrl,
                                   node.width, node.height, node.src)>>
                      ELSE <<>>)
                ELSE <<Entry(node.layer.name, node.layer.type, FALSE, node.layer.imageUrl,
                             node.layer.width, node.layer.height, node.src)>>
         IN  one \o flattenTree(Tail(nodes))

\* extractLayerTree(file): tree and layers (each layer with id = its position)
extractLayerTree(children) ==
    LET t == buildLayerTree(children, <<>>, 0).tree
        flattened == flattenTree(t)
    IN  [tree |-> t,
         layers |-> [idx \in 1..Len(flattened) |->
                        [name |-> flattened[idx].name, type |-> flattened[idx].type,
                         isGroup |-> flattened[idx].isGroup,
                         imageUrl |-> flattened[idx].imageUrl,
                         width |-> flattened[idx].width, height |-> flattened[idx].height,
                         src |-> flattened[idx].src, id |-> idx - 1]]]

\* every node of a tree, in post-order (children before their group)
RECURSIVE TreeNodes(_)
TreeNodes(nodes) ==
    IF nodes = <<>> THEN <<>>
    ELSE TreeNodes(Head(nodes).children) \o <<Head(nodes)>> \o TreeNodes(Tail(nodes))

\* layers[i] of the 0-based JavaScript array
At(list, i) == list[i + 1]
InRange(list, i) == 0 <= i /\ i < Len(list)

(***************************************************************************)
(* exportUtils.ts: sanitizeFileName                                        *)
(***************************************************************************)
IllegalChars == {"<", ">", ":", "\"", "/", "\\", "|", "?", "*"}
Whitespace == {" ", "\t", "\n", "\r"}

\* a sanitizer without the first replace
KeepIllegal(name) == name

\* .replace(/[<>:"/\\|?*]/g, '_')
ReplaceIllegal(name) == [i \in 1..Len(name) |-> IF name[i] \in IllegalChars THEN "_" ELSE name[i]]

RECURSIVE SkipWhitespace(_)
SkipWhitespace(s) ==
    IF s # <<>> /\ Head(s) \in Whitespace THEN SkipWhitespace(Tail(s)) ELSE s

\* .replace(/\s+/g, '_')
RECURSIVE ReplaceWhitespaceRuns(_)
ReplaceWhitespaceRuns(s) ==
    IF s = <<>> THEN <<>>
    ELSE IF Head(s) \in Whitespace THEN <<"_">> \o ReplaceWhitespaceRuns(SkipWhitespace(s))
    ELSE <<Head(s)>> \o ReplaceWhitespaceRuns(Tail(s))

RECURSIVE DropTrailingWhitespace(_)
DropTrailingWhitespace(s) ==
    IF s # <<>> /\ s[Len(s)] \in Whitespace
    THEN DropTrailingWhitespace(SubSeq(s, 1, Len(s) - 1)) ELSE s

\* .trim()
Trim(s) == DropTrailingWhitespace(SkipWhitespace(s))

Untitled == <<"u", "n", "t", "i", "t", "l", "e", "d">>

sanitizeFileName(name) ==
    LET cleaned == Trim(ReplaceWhitespaceRuns(ReplaceIllegal(name)))
    IN  IF cleaned = <<>> THEN Untitled ELSE cleaned

(***************************************************************************)
(* The encoders: encodeTga (encoders/tga) and encodeBlp (encoders/blp.ts)  *)
(* A Uint8Array is a sequence of bytes; offsets count from 0.              *)
(***************************************************************************)
\* new Uint8Array(n)
Zeros(n) == [i \in 1..n |-> 0]

\* buffer[byteOffset] = value / view.setUint8(byteOffset, value)
SetUint8(buffer, byteOffset, value) == [buffer EXCEPT ![byteOffset + 1] = value % 256]

\* a 16-bit store with the high byte first
SetUint16BigEndian(buffer, byteOffset, value) ==
    SetUint8(SetUint8(buffer, byteOffset + 1, value), byteOffset, value \div 256)

\* view.setUint16(byteOffset, value, true): little-endian
SetUint16(buffer, byteOffset, value) ==
    SetUint8(SetUint8(buffer, byteOffset, value), byteOffset + 1, value \div 256)

\* a 32-bit store with the high byte first
SetUint32BigEndian(buffer, byteOffset, value) ==
    SetUint8(SetUint8(SetUint8(SetUint8(buffer,
        byteOffset + 3, value),
        byteOffset + 2, value \div 256),
        byteOffset + 1, value \div 65536),
        byteOffset, value \div 16777216)

\* view.setUint32(byteOffset, value, true): little-endian
SetUint32(buffer, byteOffset, value) ==
    SetUint8(SetUint8(SetUint8(SetUint8(buffer,
        byteOffset, value),
        byteOffset + 1, value \div 256),
        byteOffset + 2, value \div 65536),
        byteOffset + 3, value \div 16777216)

\* buffer.set(source, offset)
RECURSIVE SetBytes(_, _, _)
SetBytes(buffer, source, offset) ==
    IF source = <<>> THEN buffer
    ELSE SetBytes(SetUint8(buffer, offset, Head(source)), Tail(source), offset + 1)

TgaHeaderSize == 18

\* the pixel loop of encodeTga over count pixels: byte c of output pixel i,
\* at offset 18 + 4i + c, is B, G, R, A of source pixel i
WritePixels(buffer, data, count) ==
    [k \in 1..Len(buffer) |->
        IF k <= TgaHeaderSize \/ k > TgaHeaderSize + 4 * count THEN buffer[k]
        ELSE LET i == (k - 1 - TgaHeaderSize) \div 4
                 c == (k - 1 - TgaHeaderSize) % 4
                 r == data[i * 4 + 1]
                 g == data[i * 4 + 2]
                 b == data[i * 4 + 3]
                 a == data[i * 4 + 4]
             IN  (CASE c = 0 -> b [] c = 1 -> g [] c = 2 -> r [] c = 3 -> a) % 256]

\* the 18 header bytes of encodeTga written into buffer
TgaHeader(buffer, width, height) ==
    LET b0 == SetUint8(buffer, 0, 0)
        b1 == SetUint8(b0, 1, 0)
        b2 == SetUint8(b1, 2, 2)
        b3 == SetUint16(b2, 3, 0)
        b5 == SetUint16(b3, 5, 0)
        b7 == SetUint8(b5, 7, 0)
        b8 == SetUint16(b7, 8, 0)
        b10 == SetUint16(b8, 10, 0)
        b12 == SetUint16(b10, 12, width)
        b14 == SetUint16(b12, 14, height)
        b16 == SetUint8(b14, 16, 32)
    IN  SetUint8(b16, 17, 40)

encodeTga(imageData) ==
    LET width == imageData.width
        height == imageData.height
        buffer == Zeros(TgaHeaderSize + width * height * 4)
    IN  WritePixels(TgaHeader(buffer, width, height), imageData.data, width * height)

headerSize == 156

encodeBlp(jpegData, width, height) ==
    LET fileSize == headerSize + Len(jpegData)
        buffer == Zeros(fileSize)
        m0 == SetUint8(buffer, 0, 66)
        m1 == SetUint8(m0, 1, 76)
        m2 == SetUint8(m1, 2, 80)
        m3 == SetUint8(m2, 3, 49)
        b4 == SetUint32(m3, 4, 0)
        b8 == SetUint32(b4, 8, 0)
        b12 == SetUint32(b8, 12, width)
        b16 == SetUint32(b12, 16, height)
        b20 == SetUint32(b16, 20, 5)
        b24 == SetUint32(b20, 24, 1)
        b28 == SetUint32(b24, 28, headerSize)
        b92 == SetUint32(b28, 92, Len(jpegData))
    IN  SetBytes(b92, jpegData, headerSize)

(***************************************************************************)
(* The export calls: exportLayersToFolder (exportUtils.ts) and             *)
(* exportLayerTreeWithStructure (hierarchicalExport.ts)                    *)
(***************************************************************************)
Formats == {"png", "jpg", "tga", "blp"}

FormatText(format) ==
    CASE format = "png" -> <<"p", "n", "g">>
      [] format = "jpg" -> <<"j", "p", "g">>
      [] format = "tga" -> <<"t", "g", "a">>
      [] format = "blp" -> <<"b", "l", "p">>

\* what the directory picker open({directory: true}) resolves to
Destinations ==
    {[kind |-> "null", path |-> <<>>],
     [kind |-> "array", path |-> <<>>],
     [kind |-> "string", path |-> <<>>],
     [kind |-> "string", path |-> <<"D", ":">>]}

\* a guard that tests only folderPath === null
NoDestinationNullOnly(dest) == dest.kind = "null"

\* !folderPath || typeof folderPath !== 'string'
NoDestination(dest) == dest.kind # "string" \/ dest.path = <<>>

\* `${currentPath}\\${name}`
JoinFsPath(currentPath, name) == currentPath \o <<"\\">> \o name

\* `${safeName}.${options.format}`
FileName(safeName, format) == safeName \o <<".">> \o FormatText(format)

NoNode == [index |-> -1]
IdleOp == [op |-> "none", path |-> <<>>, who |-> -1, part |-> "none",
           url |-> NoUrl, node |-> NoNode, currentPath |-> <<>>]
IdleCall == [entry |-> "none", phase |-> "idle", format |-> "png", hidden |-> {},
             tree |-> <<>>, items |-> <<>>, dest |-> [kind |-> "null", path |-> <<>>]]
ZeroTally == [success |-> 0, failed |-> 0, counted |-> <<>>]
ZeroResult == [success |-> 0, failed |-> 0]
\* the call has not returned
NoResult == [success |-> -1, failed |-> -1]

EncodeOps == {"encode_blp", "getImageData", "convertImageFormat"}

\* options.format === 'jpg' || imageUrl.startsWith('data:image/png')
NeedsConversion(format, url) == format = "jpg" \/ url.mime = "png"

\* a collaborator operation as issued: which node or item (who) and which of
\* its files (part) it serves; outcome is "pending" until it settles
LogEntry(op, path, who, part, data) ==
    [op |-> op, path |-> path, who |-> who, part |-> part, data |-> data,
     outcome |-> "pending"]

\* the operation in flight is the last one issued: it settles with an outcome
Settle(l, outcome) == [l EXCEPT ![Len(l)].outcome = outcome]

\* success++ ; counted remembers for which node or item
Succeeded(t, who, part) ==
    [t EXCEPT !.success = @ + 1,
              !.counted = Append(@, [who |-> who, part |-> part, as |-> "success"])]

\* a catch block that only logs
CaughtUncounted(t, who, part) == t

\* failed++ in a catch block; counted remembers for which node or item
Caught(t, who, part) ==
    [t EXCEPT !.failed = @ + 1,
              !.counted = Append(@, [who |-> who, part |-> part, as |-> "failed"])]

\* a hidden test that lets hidden groups through
IsHiddenLeafOnly(node, hiddenLayers) == ~node.isGroup /\ node.index \in hiddenLayers

\* if (node.index !== undefined && hiddenLayers.has(node.index)) return
IsHidden(node, hiddenLayers) == node.index \in hiddenLayers

\* The first awaited step of the per-format dispatch for one raster: the
\* operation awaited next and the log with it.
BeginRaster(format, url, filePath, who, part) ==
    LET first == IF format = "blp" THEN "encode_blp"
                 ELSE IF format = "tga" THEN "getImageData"
                 ELSE IF NeedsConversion(format, url) THEN "convertImageFormat"
                 ELSE "writeFile"
    IN  [cur |-> [op |-> first, path |-> filePath, who |-> who, part |-> part,
                  url |-> url, node |-> NoNode, currentPath |-> <<>>],
         entry |-> LogEntry(first, filePath, who, part, url)]

\* a group whose composite is exported before its children
GroupTasksCompositeFirst(node, folderPath, currentPath) ==
    <<[kind |-> "composite", node |-> node, path |-> currentPath]>>
    \o [i \in 1..Len(node.children) |->
        [kind |-> "node", node |-> node.children[i], path |-> folderPath]]

\* the tasks exportNode has ahead once the folder of a group exists: every
\* child inside the folder, then the group's own composite beside the folder
GroupTasks(node, folderPath, currentPath) ==
    [i \in 1..Len(node.children) |->
        [kind |-> "node", node |-> node.children[i], path |-> folderPath]]
    \o <<[kind |-> "composite", node |-> node, path |-> currentPath]>>

\* the layer payload exportNode expects on a group that has a composite
RECURSIVE WithGroupLayers(_)
WithGroupLayers(nodes) ==
    [i \in 1..Len(nodes) |->
        IF nodes[i].isGroup
        THEN [nodes[i] EXCEPT
                !.children = WithGroupLayers(nodes[i].children),
                !.hasLayer = TRUE,
                !.layer = [NoLayer EXCEPT !.name = nodes[i].name, !.type = "group",
                                          !.visible = TRUE, !.opacity = 255,
                                          !.width = nodes[i].width,
                                          !.height = nodes[i].height,
                                          !.imageUrl = nodes[i].imageUrl]]
        ELSE nodes[i]]

\* exportLayerTreeWithStructure(tree, options, hiddenLayers) is called: it awaits open()
CallExportLayerTreeWithStructure(t, format, hiddenLayers) ==
    /\ call' = [IdleCall EXCEPT !.entry = "hier", !.phase = "picking", !.format = format,
                                !.hidden = hiddenLayers, !.tree = t]
    /\ tasks' = <<>>
    /\ cur' = IdleOp
    /\ tally' = ZeroTally
    /\ log' = <<>>
    /\ result' = NoResult

\* exportLayersToFolder(layers, options) is called: it awaits open()
CallExportLayersToFolder(items, format) ==
    /\ call' = [IdleCall EXCEPT !.entry = "flat", !.phase = "picking", !.format = format,
                                !.items = items]
    /\ tasks' = <<>>
    /\ cur' = IdleOp
    /\ tally' = ZeroTally
    /\ log' = <<>>
    /\ result' = NoResult

\* open() resolves: no destination returns {0, 0}, otherwise the loop starts
OpenReturns ==
    /\ call.phase = "picking"
    /\ \E dest \in Destinations :
        IF NoDestination(dest)
        THEN /\ call' = [call EXCEPT !.phase = "returned", !.dest = dest]
             /\ result' = ZeroResult
             /\ UNCHANGED <<tasks, cur, tally, log>>
        ELSE /\ call' = [call EXCEPT !.phase = "running", !.dest = dest]
             /\ tasks' = IF call.entry = "hier"
                         THEN [i \in 1..Len(call.tree) |->
                                [kind |-> "node", node |-> call.tree[i], path |-> dest.path]]
                         ELSE [i \in 1..Len(call.items) |->
                                [kind |-> "item", node |-> call.items[i], path |-> dest.path]]
             /\ tally' = ZeroTally
             /\ UNCHANGED <<cur, log, result>>
    /\ UNCHANGED <<parseVars, ui>>
    /\ UNCHANGED pureVars
    /\ UNCHANGED viewVars
    /\ UNCHANGED diskVars

Running(entry) == call.phase = "running" /\ call.entry = entry /\ cur.op = "none"

\* a destination that other programs write to and where an operation can
\* fail, and one that only the export calls touch and where none fails
FreeDisk == [isolated |-> FALSE, dirs |-> {}, files |-> {}]
EmptyDisk == [isolated |-> TRUE, dirs |-> {}, files |-> {}]

\* what exists(path) can settle with
ExistsOutcomes(path) ==
    IF disk.isolated THEN {IF path \in disk.dirs THEN "true" ELSE "false"}
    ELSE {"true", "false", "error"}

\* whether an encode, mkdir or write can succeed / fail
OkOutcomes == IF disk.isolated THEN {TRUE} ELSE BOOLEAN

\* the destination after mkdir(path) / writeFile(path) resolved
WithDir(d, path) == IF d.isolated THEN [d EXCEPT !.dirs = @ \cup {path}] ELSE d
WithFile(d, path) == IF d.isolated THEN [d EXCEPT !.files = @ \cup {path}] ELSE d

\* a folder that is created whatever exists answered
MkdirAlways(folderExists) == TRUE

\* if (!folderExists) mkdir
NeedsMkdir(folderExists) == ~folderExists

\* exportNode(node, currentPath) up to its first await
ExportNode ==
    /\ Running("hier")
    /\ tasks # <<>>
    /\ Head(tasks).kind = "node"
    /\ LET node == Head(tasks).node
           currentPath == Head(tasks).path
           safeName == sanitizeFileName(node.name)
           folderPath == JoinFsPath(currentPath, safeName)
           filePath == JoinFsPath(currentPath, FileName(safeName, call.format))
           begin == BeginRaster(call.format, node.layer.imageUrl, filePath, node.index, "leaf")
       IN  /\ tasks' = Tail(tasks)
           /\ IF IsHidden(node, call.hidden)
              THEN UNCHANGED <<cur, log>>
              ELSE IF node.isGroup /\ node.hasChildren
              THEN /\ cur' = [IdleOp EXCEPT !.op = "exists", !.path = folderPath,
                                            !.who = node.index, !.part = "folder",
                                            !.node = node, !.currentPath = currentPath]
                   /\ log' = Append(log, LogEntry("exists", folderPath, node.index, "folder", NoUrl))
              ELSE IF node.hasLayer /\ node.layer.imageUrl # NoUrl
              THEN /\ cur' = begin.cur
                   /\ log' = Append(log, begin.entry)
              ELSE UNCHANGED <<cur, log>>
    /\ UNCHANGED <<parseVars, ui, call, tally, result>>
    /\ UNCHANGED pureVars
    /\ UNCHANGED viewVars
    /\ UNCHANGED diskVars

\* await exists(folderPath) settles
ExistsReturns ==
    /\ call.phase = "running"
    /\ cur.op = "exists"
    /\ \E outcome \in ExistsOutcomes(cur.path) :
        IF outcome = "error"
        THEN /\ tally' = Caught(tally, cur.who, cur.part)
             /\ cur' = IdleOp
             /\ log' = Settle(log, "rejected")
             /\ UNCHANGED tasks
        ELSE IF NeedsMkdir(outcome = "true")
        THEN /\ cur' = [cur EXCEPT !.op = "mkdir"]
             /\ log' = Append(Settle(log, outcome),
                              LogEntry("mkdir", cur.path, cur.who, "folder", NoUrl))
             /\ UNCHANGED <<tasks, tally>>
        ELSE /\ tasks' = GroupTasks(cur.node, cur.path, cur.currentPath) \o tasks
             /\ cur' = IdleOp
             /\ log' = Settle(log, outcome)
             /\ UNCHANGED tally
    /\ UNCHANGED <<parseVars, ui, call, result>>
    /\ UNCHANGED pureVars
    /\ UNCHANGED viewVars
    /\ UNCHANGED diskVars

\* await mkdir(folderPath, {recursive: true}) settles
MkdirReturns ==
    /\ call.phase = "running"
    /\ cur.op = "mkdir"
    /\ \E ok \in OkOutcomes :
        IF ok
        THEN /\ tasks' = GroupTasks(cur.node, cur.path, cur.currentPath) \o tasks
             /\ cur' = IdleOp
             /\ log' = Settle(log, "resolved")
             /\ disk' = WithDir(disk, cur.path)
             /\ UNCHANGED tally
        ELSE /\ tally' = Caught(tally, cur.who, cur.part)
             /\ cur' = IdleOp
             /\ log' = Settle(log, "rejected")
             /\ UNCHANGED <<tasks, disk>>
    /\ UNCHANGED <<parseVars, ui, call, result>>
    /\ UNCHANGED pureVars
    /\ UNCHANGED viewVars
    /\ UNCHANGED runs

\* after the children of a group: if (node.layer && node.layer.imageUrl)
GroupComposite ==
    /\ Running("hier")
    /\ tasks # <<>>
    /\ Head(tasks).kind = "composite"
    /\ LET node == Head(tasks).node
           currentPath == Head(tasks).path
           safeName == sanitizeFileName(node.name)
           filePath == JoinFsPath(currentPath, FileName(safeName, call.format))
           begin == BeginRaster(call.format, node.layer.imageUrl, filePath, node.index,
                                "composite")
       IN  /\ tasks' = Tail(tasks)
           /\ IF node.hasLayer /\ node.layer.imageUrl # NoUrl
              THEN /\ cur' = begin.cur
                   /\ log' = Append(log, begin.entry)
              ELSE UNCHANGED <<cur, log>>
    /\ UNCHANGED <<parseVars, ui, call, tally, result>>
    /\ UNCHANGED pureVars
    /\ UNCHANGED viewVars
    /\ UNCHANGED diskVars

\* the loop body of exportLayersToFolder up to its first await
ExportLayer ==
    /\ Running("flat")
    /\ tasks # <<>>
    /\ LET layer == Head(tasks).node
           folderPath == Head(tasks).path
           safeName == sanitizeFileName(layer.name)
           filePath == JoinFsPath(folderPath, FileName(safeName, call.format))
           begin == BeginRaster(call.format, layer.imageUrl, filePath, layer.who, "item")
       IN  /\ tasks' = Tail(tasks)
           /\ cur' = begin.cur
           /\ log' = Append(log, begin.entry)
    /\ UNCHANGED <<parseVars, ui, call, tally, result>>
    /\ UNCHANGED pureVars
    /\ UNCHANGED viewVars
    /\ UNCHANGED diskVars

\* the bytes handed to writeFile after a successful encode
Encoded(format, url) == [url EXCEPT !.mime = format]

\* invoke('encode_blp'), getImageData or convertImageFormat settles.
\* encode_blp and getImageData reject on failure; convertImageFormat catches
\* its own error and resolves to null, and the caller then keeps the source URL.
EncodeReturns ==
    /\ call.phase = "running"
    /\ cur.op \in EncodeOps
    /\ \E ok \in OkOutcomes :
        IF ok
        THEN /\ cur' = [cur EXCEPT !.op = "writeFile", !.url = Encoded(call.format, cur.url)]
             /\ log' = Append(Settle(log, "resolved"),
                              LogEntry("writeFile", cur.path, cur.who, cur.part,
                                       Encoded(call.format, cur.url)))
             /\ UNCHANGED tally
        ELSE IF cur.op = "convertImageFormat"
        THEN /\ cur' = [cur EXCEPT !.op = "writeFile"]
             /\ log' = Append(Settle(log, "null"),
                              LogEntry("writeFile", cur.path, cur.who, cur.part, cur.url))
             /\ UNCHANGED tally
        ELSE /\ tally' = Caught(tally, cur.who, cur.part)
             /\ cur' = IdleOp
             /\ log' = Settle(log, "rejected")
    /\ UNCHANGED <<parseVars, ui, call, tasks, result>>
    /\ UNCHANGED pureVars
    /\ UNCHANGED viewVars
    /\ UNCHANGED diskVars

\* await writeFile(filePath, bytes) settles: success++ or, in the catch, failed++
WriteReturns ==
    /\ call.phase = "running"
    /\ cur.op = "writeFile"
    /\ \E ok \in OkOutcomes :
        /\ tally' = IF ok THEN Succeeded(tally, cur.who, cur.part)
                    ELSE Caught(tally, cur.who, cur.part)
        /\ log' = Settle(log, IF ok THEN "resolved" ELSE "rejected")
        /\ disk' = IF ok THEN WithFile(disk, cur.path) ELSE disk
    /\ cur' = IdleOp
    /\ UNCHANGED <<parseVars, ui, call, tasks, result>>
    /\ UNCHANGED pureVars
    /\ UNCHANGED viewVars
    /\ UNCHANGED runs

\* return { success, failed }
ExportReturns ==
    /\ call.phase = "running"
    /\ cur.op = "none"
    /\ tasks = <<>>
    /\ call' = [call EXCEPT !.phase = "returned"]
    /\ result' = [success |-> tally.success, failed |-> tally.failed]
    /\ UNCHANGED <<parseVars, ui, tasks, cur, tally, log>>
    /\ UNCHANGED pureVars
    /\ UNCHANGED viewVars
    /\ UNCHANGED diskVars

ExportStep ==
    \/ OpenReturns
    \/ ExportNode
    \/ ExistsReturns
    \/ MkdirReturns
    \/ GroupComposite
    \/ ExportLayer
    \/ EncodeReturns
    \/ WriteReturns
    \/ ExportReturns

(***************************************************************************)
(* Parser runs: both extractions applied to every document                 *)
(***************************************************************************)
\* App.tsx after construction. selectedIndexes lists the Set in insertion
\* order; alert is the type of the alert on show; exporting: handleConfirmExport
\* awaits an export call; unhandled: a handler ended in an uncaught exception.
IdleUi == [selectedIndexes |-> <<>>, hiddenLayers |-> {}, exportTarget |-> "selected",
           showExportModal |-> FALSE, alert |-> "none", hasFile |-> FALSE,
           exporting |-> FALSE, unhandled |-> FALSE]

InitParser ==
    /\ doc \in ParserDocuments
    /\ tree = <<>>
    /\ layers = <<>>
    /\ psdLayers = <<>>
    /\ parsed = {}
    /\ call = IdleCall
    /\ tasks = <<>>
    /\ cur = IdleOp
    /\ tally = ZeroTally
    /\ log = <<>>
    /\ result = NoResult
    /\ ui = IdleUi
    /\ arg = NoArg
    /\ ret = NoRet
    /\ disk = FreeDisk
    /\ runs = <<>>
    /\ preview = NoPreview
    /\ hook = IdleHook
    /\ drag = IdleDrag

\* extractLayerTree(file) on the decoded document
ExtractLayerTree ==
    /\ "tree" \notin parsed
    /\ tree' = extractLayerTree(doc).tree
    /\ layers' = extractLayerTree(doc).layers
    /\ parsed' = parsed \cup {"tree"}
    /\ UNCHANGED <<doc, psdLayers, exportVars, ui>>
    /\ UNCHANGED pureVars
    /\ UNCHANGED viewVars
    /\ UNCHANGED diskVars

\* extractPSDLayers(file) on the decoded document
ExtractPSDLayers ==
    /\ "flat" \notin parsed
    /\ psdLayers' = flattenLayers(doc)
    /\ parsed' = parsed \cup {"flat"}
    /\ UNCHANGED <<doc, tree, layers, exportVars, ui>>
    /\ UNCHANGED pureVars
    /\ UNCHANGED viewVars
    /\ UNCHANGED diskVars

NextParser == ExtractLayerTree \/ ExtractPSDLayers

SpecParser == InitParser /\ [][NextParser]_vars

(***************************************************************************)
(* Export runs: both export calls on every parsed document                 *)
(***************************************************************************)
InitExport ==
    /\ doc \in ExportDocuments
    /\ tree = extractLayerTree(doc).tree
    /\ layers = extractLayerTree(doc).layers
    /\ psdLayers = <<>>
    /\ parsed = {"tree"}
    /\ call = IdleCall
    /\ tasks = <<>>
    /\ cur = IdleOp
    /\ tally = ZeroTally
    /\ log = <<>>
    /\ result = NoResult
    /\ ui = IdleUi
    /\ arg = NoArg
    /\ ret = NoRet
    /\ disk = FreeDisk
    /\ runs = <<>>
    /\ preview = NoPreview
    /\ hook = IdleHook
    /\ drag = IdleDrag

TreeIndexes(t) == {TreeNodes(t)[i].index : i \in 1..Len(TreeNodes(t))}

\* the {imageUrl, name} pairs of the layers at the given positions, in order
ItemsOf(list, indexes) ==
    [k \in 1..Len(indexes) |->
        [imageUrl |-> At(list, indexes[k]).imageUrl, name |-> At(list, indexes[k]).name,
         who |-> indexes[k]]]

\* every order in which distinct members of a set can be listed
RECURSIVE Arrangements(_)
Arrangements(S) ==
    {<<>>} \cup UNION {{<<x>> \o rest : rest \in Arrangements(S \ {x})} : x \in S}

\* a caller hands a tree, options and a hidden set to the hierarchical export
StartHierarchical ==
    /\ call.phase = "idle"
    /\ \E format \in Formats, hiddenLayers \in SUBSET TreeIndexes(tree), given \in BOOLEAN :
        CallExportLayerTreeWithStructure(
            IF given THEN WithGroupLayers(tree) ELSE tree, format, hiddenLayers)
    /\ UNCHANGED <<parseVars, ui>>
    /\ UNCHANGED pureVars
    /\ UNCHANGED viewVars
    /\ UNCHANGED diskVars

\* a caller hands layers that have a raster, in any order, to the flat export
StartFlat ==
    /\ call.phase = "idle"
    /\ \E format \in Formats,
          picked \in Arrangements({i \in 0..(Len(layers) - 1) : At(layers, i).imageUrl # NoUrl}) :
        CallExportLayersToFolder(ItemsOf(layers, picked), format)
    /\ UNCHANGED <<parseVars, ui>>
    /\ UNCHANGED pureVars
    /\ UNCHANGED viewVars
    /\ UNCHANGED diskVars

NextExport == StartHierarchical \/ StartFlat \/ ExportStep

SpecExport == InitExport /\ [][NextExport]_vars

(***************************************************************************)
(* The application: App.tsx with usePsdParser, LayerTree and ExportModal   *)
(***************************************************************************)
InitApp ==
    /\ doc = <<>>
    /\ tree = <<>>
    /\ layers = <<>>
    /\ psdLayers = <<>>
    /\ parsed = {}
    /\ call = IdleCall
    /\ tasks = <<>>
    /\ cur = IdleOp
    /\ tally = ZeroTally
    /\ log = <<>>
    /\ result = NoResult
    /\ ui = IdleUi
    /\ arg = NoArg
    /\ ret = NoRet
    /\ disk = FreeDisk
    /\ runs = <<>>
    /\ preview = NoPreview
    /\ hook = IdleHook
    /\ drag = IdleDrag

SeqSet(q) == {q[k] : k \in 1..Len(q)}
Without(q, x) == SelectSeq(q, LAMBDA y : y # x)

\* handleFileSelect(file) with parsePsdFile: the selection is reset and the
\* hook takes tree and layers of the new document; the hidden set is reset
\* when a new file is loaded
HandleFileSelect ==
    /\ ~ui.exporting
    /\ \E d \in AppDocuments :
        /\ doc' = d
        /\ tree' = extractLayerTree(d).tree
        /\ layers' = extractLayerTree(d).layers
    /\ parsed' = {"tree"}
    /\ ui' = [ui EXCEPT !.hasFile = TRUE, !.selectedIndexes = <<>>, !.hiddenLayers = {}]
    /\ UNCHANGED <<psdLayers, exportVars>>
    /\ UNCHANGED pureVars
    /\ UNCHANGED viewVars
    /\ UNCHANGED diskVars

\* the nodes LayerTree renders: the tree and, before it, the full-PSD node
\* with index -1
ClickableIndexes == TreeIndexes(tree) \cup (IF ui.hasFile THEN {-1} ELSE {})

\* handleLayerSelect(node, multi): a click, or a Ctrl/Cmd click, on a tree node
HandleLayerSelect ==
    /\ ~ui.exporting
    /\ \E index \in ClickableIndexes, multi \in BOOLEAN :
        ui' = [ui EXCEPT !.selectedIndexes =
                IF ~multi THEN <<index>>
                ELSE IF index \in SeqSet(@) THEN Without(@, index)
                ELSE Append(@, index)]
    /\ UNCHANGED <<parseVars, exportVars>>
    /\ UNCHANGED pureVars
    /\ UNCHANGED viewVars
    /\ UNCHANGED diskVars

\* onToggleVisibility(index): the eye icon of a tree node
ToggleVisibility ==
    /\ ~ui.exporting
    /\ \E index \in TreeIndexes(tree) :
        ui' = [ui EXCEPT !.hiddenLayers =
                IF index \in @ THEN @ \ {index} ELSE @ \cup {index}]
    /\ UNCHANGED <<parseVars, exportVars>>
    /\ UNCHANGED pureVars
    /\ UNCHANGED viewVars
    /\ UNCHANGED diskVars

\* handleExportSelected: open the export modal for the selection
HandleExportSelected ==
    /\ ~ui.exporting
    /\ ui' = IF Len(ui.selectedIndexes) = 0
             THEN [ui EXCEPT !.alert = "warning"]
             ELSE [ui EXCEPT !.exportTarget = "selected", !.showExportModal = TRUE]
    /\ UNCHANGED <<parseVars, exportVars>>
    /\ UNCHANGED pureVars
    /\ UNCHANGED viewVars
    /\ UNCHANGED diskVars

\* handleExportWithStructure: open the export modal for the layer tree
HandleExportWithStructure ==
    /\ ~ui.exporting
    /\ ui' = IF Len(tree) = 0
             THEN [ui EXCEPT !.alert = "warning"]
             ELSE [ui EXCEPT !.exportTarget = "structure", !.showExportModal = TRUE]
    /\ UNCHANGED <<parseVars, exportVars>>
    /\ UNCHANGED pureVars
    /\ UNCHANGED viewVars
    /\ UNCHANGED diskVars

\* ExportModal onClose without confirming
CloseExportModal ==
    /\ ~ui.exporting
    /\ ui.showExportModal
    /\ ui' = [ui EXCEPT !.showExportModal = FALSE]
    /\ UNCHANGED <<parseVars, exportVars>>
    /\ UNCHANGED pureVars
    /\ UNCHANGED viewVars
    /\ UNCHANGED diskVars

\* hideAlert
HideAlert ==
    /\ ~ui.exporting
    /\ ui.alert # "none"
    /\ ui' = [ui EXCEPT !.alert = "none"]
    /\ UNCHANGED <<parseVars, exportVars>>
    /\ UNCHANGED pureVars
    /\ UNCHANGED viewVars
    /\ UNCHANGED diskVars

\* ExportModal handleConfirm -> handleConfirmExport(options), up to its await.
\* Batch export maps the selection to layers[i] (an index outside the list
\* gives undefined, and reading its imageUrl throws), keeps the layers with a
\* raster and calls exportLayersToFolder; structure export calls
\* exportLayerTreeWithStructure(layerTree, options), leaving the hidden set
\* parameter to its default, the empty set.
HandleConfirmExport ==
    /\ ui.showExportModal
    /\ ~ui.exporting
    /\ \E format \in Formats :
        IF ui.exportTarget = "selected"
        THEN IF \E k \in 1..Len(ui.selectedIndexes) : ~InRange(layers, ui.selectedIndexes[k])
             THEN /\ ui' = [ui EXCEPT !.showExportModal = FALSE, !.unhandled = TRUE]
                  /\ UNCHANGED exportVars
             ELSE LET withImage == SelectSeq(ui.selectedIndexes,
                                             LAMBDA i : At(layers, i).imageUrl # NoUrl)
                  IN  IF Len(withImage) = 0
                      THEN /\ ui' = [ui EXCEPT !.showExportModal = FALSE, !.alert = "warning"]
                           /\ UNCHANGED exportVars
                      ELSE /\ ui' = [ui EXCEPT !.showExportModal = FALSE, !.exporting = TRUE]
                           /\ CallExportLayersToFolder(ItemsOf(layers, withImage), format)
        ELSE /\ ui' = [ui EXCEPT !.showExportModal = FALSE, !.exporting = TRUE]
             /\ CallExportLayerTreeWithStructure(tree, format, {})
    /\ UNCHANGED parseVars
    /\ UNCHANGED pureVars
    /\ UNCHANGED viewVars
    /\ UNCHANGED diskVars

\* handleConfirmExport after its await: a result of 0 and 0 is taken for a
\* cancelled picker, any other result is reported in a success alert
ExportSettled ==
    /\ ui.exporting
    /\ call.phase = "returned"
    /\ ui' = IF result.success = 0 /\ result.failed = 0
             THEN [ui EXCEPT !.exporting = FALSE]
             ELSE [ui EXCEPT !.exporting = FALSE, !.alert = "success"]
    /\ call' = IdleCall
    /\ tasks' = <<>>
    /\ cur' = IdleOp
    /\ tally' = ZeroTally
    /\ log' = <<>>
    /\ result' = NoResult
    /\ UNCHANGED parseVars
    /\ UNCHANGED pureVars
    /\ UNCHANGED viewVars
    /\ UNCHANGED diskVars

NextApp ==
    \/ HandleFileSelect
    \/ HandleLayerSelect
    \/ ToggleVisibility
    \/ HandleExportSelected
    \/ HandleExportWithStructure
    \/ CloseExportModal
    \/ HideAlert
    \/ HandleConfirmExport
    \/ ExportSettled
    \/ ExportStep

SpecApp == InitApp /\ [][NextApp]_vars

(***************************************************************************)
(* Repeated export: the same call made twice into a destination that only  *)
(* the export touches                                                      *)
(***************************************************************************)
InitRerun ==
    /\ doc \in ExportDocuments
    /\ tree = extractLayerTree(doc).tree
    /\ layers = extractLayerTree(doc).layers
    /\ psdLayers = <<>>
    /\ parsed = {"tree"}
    /\ call = IdleCall
    /\ tasks = <<>>
    /\ cur = IdleOp
    /\ tally = ZeroTally
    /\ log = <<>>
    /\ result = NoResult
    /\ ui = IdleUi
    /\ arg = NoArg
    /\ ret = NoRet
    /\ disk = EmptyDisk
    /\ runs = <<>>
    /\ preview = NoPreview
    /\ hook = IdleHook
    /\ drag = IdleDrag

\* the caller makes the call that just returned once more, with the same
\* tree or list, options and hidden set
ExportAgain ==
    /\ call.phase = "returned"
    /\ runs = <<>>
    /\ runs' = <<[result |-> result, dest |-> call.dest, dirs |-> disk.dirs,
                  files |-> disk.files, log |-> log]>>
    /\ IF call.entry = "hier"
       THEN CallExportLayerTreeWithStructure(call.tree, call.format, call.hidden)
       ELSE CallExportLayersToFolder(call.items, call.format)
    /\ UNCHANGED <<parseVars, ui, pureVars, disk, viewVars>>

NextRerun == StartHierarchical \/ StartFlat \/ ExportAgain \/ ExportStep

SpecRerun == InitRerun /\ [][NextRerun]_vars

(***************************************************************************)
(* Replayed export: the same call made twice into a destination where any  *)
(* operation can fail                                                      *)
(***************************************************************************)
SpecReplay == InitExport /\ [][NextRerun]_vars

(***************************************************************************)
(* sanitizeFileName applied to every short name                            *)
(***************************************************************************)
\* the characters of the names: a plain one, two illegal ones, a blank, a tab
NameChars == {"a", "*", "/", " ", "\t"}
Names == UNION {[1..n -> NameChars] : n \in 0..MaxNameLen}

InitSanitize ==
    /\ doc = <<>>
    /\ tree = <<>>
    /\ layers = <<>>
    /\ psdLayers = <<>>
    /\ parsed = {}
    /\ call = IdleCall
    /\ tasks = <<>>
    /\ cur = IdleOp
    /\ tally = ZeroTally
    /\ log = <<>>
    /\ result = NoResult
    /\ ui = IdleUi
    /\ arg \in {[fn |-> "sanitizeFileName", name |-> n] : n \in Names}
    /\ ret = NoRet
    /\ disk = FreeDisk
    /\ runs = <<>>
    /\ preview = NoPreview
    /\ hook = IdleHook
    /\ drag = IdleDrag

\* sanitizeFileName(name)
SanitizeFileName ==
    /\ arg.fn = "sanitizeFileName"
    /\ ret = NoRet
    /\ ret' = [fn |-> "sanitizeFileName", value |-> sanitizeFileName(arg.name)]
    /\ UNCHANGED <<parseVars, exportVars, ui, arg, viewVars>>
    /\ UNCHANGED diskVars

NextSanitize == SanitizeFileName

SpecSanitize == InitSanitize /\ [][NextSanitize]_vars

(***************************************************************************)
(* encodeTga and encodeBlp applied to small and to extreme inputs          *)
(***************************************************************************)
\* RGBA values of a pixel
Colours == {<<1, 2, 3, 4>>, <<255, 0, 128, 7>>, <<0, 0, 0, 0>>}

\* ImageData of width w and height h with the given pixels, row by row
ImageData(w, h, pixels) ==
    [width |-> w, height |-> h,
     data |-> [k \in 1..(4 * w * h) |-> pixels[((k - 1) \div 4) + 1][((k - 1) % 4) + 1]]]

\* every image of up to MaxSide x MaxSide pixels, and images whose width or
\* height needs the high byte of its 16-bit header field
TgaImages ==
    {ImageData(w, h, pixels) :
        <<w, h, pixels>> \in UNION {{<<w, h, px>> : px \in [1..(w * h) -> Colours]} :
                                    w \in 0..MaxSide, h \in 0..MaxSide}}
    \cup {ImageData(d[1], d[2], [i \in 1..(d[1] * d[2]) |->
                                    <<i % 256, (i * 3) % 256, (i * 7) % 256, 255>>]) :
            d \in {<<256, 1>>, <<1, 257>>, <<65535, 0>>, <<0, 65535>>}}

InitTga ==
    /\ doc = <<>>
    /\ tree = <<>>
    /\ layers = <<>>
    /\ psdLayers = <<>>
    /\ parsed = {}
    /\ call = IdleCall
    /\ tasks = <<>>
    /\ cur = IdleOp
    /\ tally = ZeroTally
    /\ log = <<>>
    /\ result = NoResult
    /\ ui = IdleUi
    /\ arg \in {[fn |-> "encodeTga", imageData |-> im] : im \in TgaImages}
    /\ ret = NoRet
    /\ disk = FreeDisk
    /\ runs = <<>>
    /\ preview = NoPreview
    /\ hook = IdleHook
    /\ drag = IdleDrag

\* encodeTga(imageData)
EncodeTga ==
    /\ arg.fn = "encodeTga"
    /\ ret = NoRet
    /\ ret' = [fn |-> "encodeTga", value |-> encodeTga(arg.imageData)]
    /\ UNCHANGED <<parseVars, exportVars, ui, arg, diskVars, viewVars>>

NextTga == EncodeTga

SpecTga == InitTga /\ [][NextTga]_vars

\* JPEG payloads: every byte sequence of up to MaxPayloadLen bytes over three
\* byte values
Payloads == UNION {[1..n -> {0, 216, 255}] : n \in 0..MaxPayloadLen}

\* widths and heights: small ones and ones that need every byte of the field
BlpSides == {0, 1, 256, 65536, 2147483647}

InitBlp ==
    /\ doc = <<>>
    /\ tree = <<>>
    /\ layers = <<>>
    /\ psdLayers = <<>>
    /\ parsed = {}
    /\ call = IdleCall
    /\ tasks = <<>>
    /\ cur = IdleOp
    /\ tally = ZeroTally
    /\ log = <<>>
    /\ result = NoResult
    /\ ui = IdleUi
    /\ arg \in {[fn |-> "encodeBlp", jpegData |-> p, width |-> w, height |-> h] :
                    p \in Payloads, w \in BlpSides, h \in BlpSides}
    /\ ret = NoRet
    /\ disk = FreeDisk
    /\ runs = <<>>
    /\ preview = NoPreview
    /\ hook = IdleHook
    /\ drag = IdleDrag

\* encodeBlp(jpegData, width, height)
EncodeBlp ==
    /\ arg.fn = "encodeBlp"
    /\ ret = NoRet
    /\ ret' = [fn |-> "encodeBlp",
               value |-> encodeBlp(arg.jpegData, arg.width, arg.height)]
    /\ UNCHANGED <<parseVars, exportVars, ui, arg, diskVars, viewVars>>

NextBlp == EncodeBlp

SpecBlp == InitBlp /\ [][NextBlp]_vars

(***************************************************************************)
(* hierarchicalExport.ts: generateGroupPreview, called on every node of    *)
(* the tree of a small document, with every hidden set                     *)
(***************************************************************************)
\* Leaves of the preview runs: two rasters of different place and opacity
\* and a layer without raster.
PreviewLeaves ==
    {PsdLayer(<<"a">>, FALSE, TRUE, "layer", TRUE, FALSE, UnitBox, 255),
     PsdLayer(<<"b">>, FALSE, TRUE, "layer", TRUE, FALSE, FarBox, 128),
     PsdLayer(<<"c">>, FALSE, TRUE, "layer", FALSE, FALSE, LineBox, 255)}

PreviewDocuments == Documents(MaxPreviewNodes, PreviewLeaves, ExportGroups)

\* what collectVisibleLeafLayersFromNode pushes for a node: from node.layer,
\* or from the node itself when it has no layer
LeafOf(node) ==
    [imageUrl |-> IF node.hasLayer /\ node.layer.imageUrl # NoUrl
                  THEN node.layer.imageUrl ELSE node.imageUrl,
     left |-> IF node.hasLayer THEN node.layer.left ELSE 0,
     top |-> IF node.hasLayer THEN node.layer.top ELSE 0,
     opacity |-> IF node.hasLayer THEN node.layer.opacity ELSE 255,
     width |-> IF node.hasLayer THEN node.layer.width ELSE node.width,
     height |-> IF node.hasLayer THEN node.layer.height ELSE node.height,
     index |-> node.index]

RECURSIVE collectVisibleLeafLayersFromNode(_, _), CollectFromEach(_, _)
collectVisibleLeafLayersFromNode(node, hiddenLayers) ==
    IF node.index \in hiddenLayers THEN <<>>
    ELSE IF node.isGroup /\ node.hasChildren THEN CollectFromEach(node.children, hiddenLayers)
    ELSE IF node.hasLayer /\ node.layer.imageUrl # NoUrl THEN <<LeafOf(node)>>
    ELSE IF node.imageUrl # NoUrl /\ ~node.isGroup THEN <<LeafOf(node)>>
    ELSE <<>>

\* for (const child of node.children) collectVisibleLeafLayersFromNode(child, ...)
CollectFromEach(nodes, hiddenLayers) ==
    IF nodes = <<>> THEN <<>>
    ELSE collectVisibleLeafLayersFromNode(Head(nodes), hiddenLayers)
         \o CollectFromEach(Tail(nodes), hiddenLayers)

Sized(layer) == layer.width > 0 /\ layer.height > 0

\* the bounds loop of generateGroupPreview: Infinity / -Infinity are kept
\* when no layer has a size, and the width is then -Infinity
PreviewBounds(visibleLayers) ==
    LET q == SelectSeq(visibleLayers, Sized)
    IN  IF q = <<>>
        THEN [finite |-> FALSE, minLeft |-> 0, minTop |-> 0, maxRight |-> 0, maxBottom |-> 0]
        ELSE [finite |-> TRUE,
              minLeft |-> FoldMin([i \in 1..Len(q) |-> q[i].left], q[1].left),
              minTop |-> FoldMin([i \in 1..Len(q) |-> q[i].top], q[1].top),
              maxRight |-> FoldMax([i \in 1..Len(q) |-> q[i].left + q[i].width],
                                   q[1].left + q[1].width),
              maxBottom |-> FoldMax([i \in 1..Len(q) |-> q[i].top + q[i].height],
                                    q[1].top + q[1].height)]

\* return null
ReturnNull(p) == [p EXCEPT !.phase = "returned", !.at = 0, !.ret = NoUrl]

\* the position of the first layer at or after from that is not skipped for
\* having no size; 0 when the loop is over
RECURSIVE NextSized(_, _)
NextSized(visibleLayers, from) ==
    IF from > Len(visibleLayers) THEN 0
    ELSE IF Sized(visibleLayers[from]) THEN from
    ELSE NextSized(visibleLayers, from + 1)

\* the drawing loop from position from up to its next await, or to
\* return canvas.toDataURL('image/png')
ContinueLoop(p, from) ==
    LET k == NextSized(p.layers, from)
    IN  IF k = 0
        THEN [p EXCEPT !.phase = "returned", !.at = 0,
                       !.ret = [mime |-> "png", owner |-> p.group, drawn |-> p.drawn]]
        ELSE [p EXCEPT !.phase = "loading", !.at = k,
                       !.loads = Append(@, [at |-> k, outcome |-> "pending"])]

\* a drawing loop without a catch of its own: the rejection reaches the
\* outer catch, which returns null
AbortOnLoadError(p) == ReturnNull(p)

\* catch (error) { console.warn(...); continue; }
OnLoadError(p) == ContinueLoop(p, p.at + 1)

\* ctx.globalAlpha = opacity; ctx.drawImage(img, layer.left - minLeft, layer.top - minTop)
DrawImage(p) ==
    LET layer == p.layers[p.at]
    IN  [p EXCEPT !.drawn = Append(@, [id |-> layer.imageUrl.owner,
                                       x |-> layer.left - p.minLeft,
                                       y |-> layer.top - p.minTop,
                                       alpha |-> GlobalAlpha(layer.opacity)])]

InitPreview ==
    /\ doc \in PreviewDocuments
    /\ tree = extractLayerTree(doc).tree
    /\ layers = extractLayerTree(doc).layers
    /\ psdLayers = <<>>
    /\ parsed = {"tree"}
    /\ call = IdleCall
    /\ tasks = <<>>
    /\ cur = IdleOp
    /\ tally = ZeroTally
    /\ log = <<>>
    /\ result = NoResult
    /\ ui = IdleUi
    /\ arg = NoArg
    /\ ret = NoRet
    /\ disk = FreeDisk
    /\ runs = <<>>
    /\ preview = NoPreview
    /\ hook = IdleHook
    /\ drag = IdleDrag

\* generateGroupPreview(groupNode, hiddenLayers) up to its first await, for a
\* node of the tree; gotContext: canvas.getContext('2d') gave a context
GenerateGroupPreview ==
    /\ preview.phase = "idle"
    /\ \E i \in 1..Len(TreeNodes(tree)), hiddenLayers \in SUBSET TreeIndexes(tree),
          gotContext \in BOOLEAN :
        LET groupNode == TreeNodes(tree)[i]
            visibleLayers == collectVisibleLeafLayersFromNode(groupNode, hiddenLayers)
            b == PreviewBounds(visibleLayers)
            called == [NoPreview EXCEPT !.group = groupNode.index, !.hidden = hiddenLayers]
        IN  preview' =
                IF ~groupNode.isGroup \/ ~groupNode.hasChildren THEN ReturnNull(called)
                ELSE IF Len(visibleLayers) = 0 THEN ReturnNull(called)
                ELSE IF ~b.finite \/ b.maxRight - b.minLeft <= 0 \/ b.maxBottom - b.minTop <= 0
                THEN ReturnNull([called EXCEPT !.layers = visibleLayers])
                ELSE IF ~gotContext THEN ReturnNull([called EXCEPT !.layers = visibleLayers])
                ELSE ContinueLoop([called EXCEPT !.layers = visibleLayers,
                                                 !.minLeft = b.minLeft, !.minTop = b.minTop,
                                                 !.width = b.maxRight - b.minLeft,
                                                 !.height = b.maxBottom - b.minTop], 1)
    /\ UNCHANGED <<parseVars, exportVars, ui, pureVars, diskVars, hook, drag>>

\* the awaited image settles: image.onload (draw, then on with the loop) or
\* image.onerror
ImageSettles ==
    /\ preview.phase = "loading"
    /\ \E loaded \in BOOLEAN :
        LET settled == [preview EXCEPT
                            !.loads[Len(preview.loads)].outcome =
                                IF loaded THEN "loaded" ELSE "failed"]
        IN  preview' = IF loaded THEN ContinueLoop(DrawImage(settled), settled.at + 1)
                       ELSE OnLoadError(settled)
    /\ UNCHANGED <<parseVars, exportVars, ui, pureVars, diskVars, hook, drag>>

NextPreview == GenerateGroupPreview \/ ImageSettles

SpecPreview == InitPreview /\ [][NextPreview]_vars

(***************************************************************************)
(* layerUtils.ts: getLayerBounds, calculateGroupBounds, getLayerOpacity    *)
(***************************************************************************)
\* a layer as the bounds functions read it; absent: the fields it does not have
BoundsLayer(left, top, right, bottom, absent) ==
    [left |-> left, top |-> top, right |-> right, bottom |-> bottom, absent |-> absent]

\* getLayerBounds(layer)
getLayerBounds(layer) ==
    LET left == IF "left" \in layer.absent THEN 0 ELSE layer.left
        top == IF "top" \in layer.absent THEN 0 ELSE layer.top
        right == IF "right" \in layer.absent THEN left ELSE layer.right
        bottom == IF "bottom" \in layer.absent THEN top ELSE layer.bottom
    IN  [left |-> left, top |-> top, right |-> right, bottom |-> bottom,
         width |-> right - left, height |-> bottom - top]

\* return null
NoBounds == [isNull |-> TRUE, left |-> 0, top |-> 0, right |-> 0, bottom |-> 0,
             width |-> 0, height |-> 0]

\* a size test that is content with one positive side
AnyExtent(bounds) == bounds.width > 0 \/ bounds.height > 0

\* bounds.width > 0 && bounds.height > 0
HasExtent(bounds) == bounds.width > 0 /\ bounds.height > 0

\* calculateGroupBounds(layers)
calculateGroupBounds(layerList) ==
    LET all == [i \in 1..Len(layerList) |-> getLayerBounds(layerList[i])]
        q == SelectSeq(all, HasExtent)
    IN  IF Len(layerList) = 0 \/ q = <<>> THEN NoBounds
        ELSE LET minLeft == FoldMin([i \in 1..Len(q) |-> q[i].left], q[1].left)
                 minTop == FoldMin([i \in 1..Len(q) |-> q[i].top], q[1].top)
                 maxRight == FoldMax([i \in 1..Len(q) |-> q[i].right], q[1].right)
                 maxBottom == FoldMax([i \in 1..Len(q) |-> q[i].bottom], q[1].bottom)
             IN  [isNull |-> FALSE, left |-> minLeft, top |-> minTop,
                  right |-> maxRight, bottom |-> maxBottom,
                  width |-> maxRight - minLeft, height |-> maxBottom - minTop]

\* the layers handed to the bounds functions: without size, with one side,
\* the two of the 15 by 15 example, left of and above the origin, turned
\* inside out, and with fields missing
BoundsLayers ==
    {BoundsLayer(0, 0, 0, 0, {}),
     BoundsLayer(0, 0, 2, 0, {}),
     BoundsLayer(0, 0, 10, 10, {}),
     BoundsLayer(5, 5, 15, 15, {}),
     BoundsLayer(-2, -1, 1, 3, {}),
     BoundsLayer(20, 20, 1, 1, {}),
     BoundsLayer(0, 0, 7, 7, {"left", "top"}),
     BoundsLayer(30, 30, 0, 0, {"right", "bottom"})}

BoundsLists == UNION {[1..n -> BoundsLayers] : n \in 0..MaxBoundsLayers}

\* the same leaves as buildLayerTree and as generateGroupPreview see them
AsTreeLeaves(layerList) == [i \in 1..Len(layerList) |-> getLayerBounds(layerList[i])]
AsPreviewLayers(layerList) ==
    [i \in 1..Len(layerList) |->
        [left |-> getLayerBounds(layerList[i]).left, top |-> getLayerBounds(layerList[i]).top,
         width |-> getLayerBounds(layerList[i]).width,
         height |-> getLayerBounds(layerList[i]).height]]

InitBounds ==
    /\ doc = <<>>
    /\ tree = <<>>
    /\ layers = <<>>
    /\ psdLayers = <<>>
    /\ parsed = {}
    /\ call = IdleCall
    /\ tasks = <<>>
    /\ cur = IdleOp
    /\ tally = ZeroTally
    /\ log = <<>>
    /\ result = NoResult
    /\ ui = IdleUi
    /\ arg \in {[fn |-> "calculateGroupBounds", layers |-> l] : l \in BoundsLists}
    /\ ret = NoRet
    /\ disk = FreeDisk
    /\ runs = <<>>
    /\ preview = NoPreview
    /\ hook = IdleHook
    /\ drag = IdleDrag

\* calculateGroupBounds(layers), and the bounds loops of buildLayerTree and of
\* generateGroupPreview run over the same leaves
CalculateGroupBounds ==
    /\ arg.fn = "calculateGroupBounds"
    /\ ret = NoRet
    /\ ret' = [fn |-> "calculateGroupBounds",
               value |-> calculateGroupBounds(arg.layers),
               inTree |-> LeafBounds(AsTreeLeaves(arg.layers)),
               inPreview |-> PreviewBounds(AsPreviewLayers(arg.layers))]
    /\ UNCHANGED <<parseVars, exportVars, ui, arg, diskVars, viewVars>>

NextBounds == CalculateGroupBounds

SpecBounds == InitBounds /\ [][NextBounds]_vars

(***************************************************************************)
(* The blend alpha of a leaf of every opacity, as buildLayerTree,          *)
(* generateGroupPreview and getLayerOpacity compute it (scaled by 255)     *)
(***************************************************************************)
\* the upper end of the integer opacity scale
MaxOpacity == 255

\* getLayerOpacity(layer): opacity / 255 above 1, clamped to 0..1
getLayerOpacity(opacity) ==
    LET scaled == IF opacity > 1 THEN opacity ELSE opacity * MaxOpacity
    IN  Max(0, Min(MaxOpacity, scaled))

\* a raster leaf of the given opacity
OpacityLeaf(opacity) ==
    [PsdLayer(<<"a">>, FALSE, TRUE, "layer", TRUE, FALSE, UnitBox, opacity) EXCEPT !.id = 1]

InitOpacity ==
    /\ doc = <<>>
    /\ tree = <<>>
    /\ layers = <<>>
    /\ psdLayers = <<>>
    /\ parsed = {}
    /\ call = IdleCall
    /\ tasks = <<>>
    /\ cur = IdleOp
    /\ tally = ZeroTally
    /\ log = <<>>
    /\ result = NoResult
    /\ ui = IdleUi
    /\ arg \in {[fn |-> "globalAlpha", opacity |-> o] : o \in 0..MaxOpacity}
    /\ ret = NoRet
    /\ disk = FreeDisk
    /\ runs = <<>>
    /\ preview = NoPreview
    /\ hook = IdleHook
    /\ drag = IdleDrag

\* the leaf is drawn into the composite of its group by buildLayerTree and by
\* generateGroupPreview, and its opacity is read with getLayerOpacity
DrawWithOpacity ==
    /\ arg.fn = "globalAlpha"
    /\ ret = NoRet
    /\ LET leaf == OpacityLeaf(arg.opacity)
           drawing == [NoPreview EXCEPT !.layers = <<LeafOf(LeafNode(leaf, leaf.name, 0))>>,
                                        !.at = 1]
       IN  ret' = [fn |-> "globalAlpha",
                   inTree |-> DrawCalls(<<leaf>>, LeafBounds(<<leaf>>))[1].alpha,
                   inPreview |-> DrawImage(drawing).drawn[1].alpha,
                   viaLayerUtils |-> getLayerOpacity(arg.opacity)]
    /\ UNCHANGED <<parseVars, exportVars, ui, arg, diskVars, viewVars>>

NextOpacity == DrawWithOpacity

SpecOpacity == InitOpacity /\ [][NextOpacity]_vars

(***************************************************************************)
(* File upload: useFileUpload (file input, drag and drop), handleFileSelect *)
(* of App.tsx and parsePsdFile of usePsdParser                             *)
(***************************************************************************)
\* what a drop or a file input change carries: no file, a file that fails
\* validation, a valid file
Files == {"none", "invalid", "valid"}

InitUpload ==
    /\ doc = <<>>
    /\ tree = <<>>
    /\ layers = <<>>
    /\ psdLayers = <<>>
    /\ parsed = {}
    /\ call = IdleCall
    /\ tasks = <<>>
    /\ cur = IdleOp
    /\ tally = ZeroTally
    /\ log = <<>>
    /\ result = NoResult
    /\ ui = IdleUi
    /\ arg = NoArg
    /\ ret = NoRet
    /\ disk = FreeDisk
    /\ runs = <<>>
    /\ preview = NoPreview
    /\ hook = IdleHook
    /\ drag = IdleDrag

\* the parsePsdFile calls that have not settled
PendingCalls == {c \in 1..Len(hook.calls) : hook.calls[c] = "pending"}

\* parsePsdFile(file) up to await extractLayerTree(file)
parsePsdFile(h) ==
    [h EXCEPT !.loading = TRUE, !.error = 0, !.layers = 0, !.layerTree = 0,
              !.psdInfo = 0, !.psdPreviewUrl = 0, !.calls = Append(@, "pending")]

\* onSuccess / onError of a file: handleError shows an alert; handleFileSelect
\* resets the selection and calls parsePsdFile
OfferFile(file) ==
    /\ file = "valid" => Len(hook.calls) < MaxParses
    /\ ui' = IF file = "invalid" THEN [ui EXCEPT !.alert = "error"]
             ELSE IF file = "valid" THEN [ui EXCEPT !.hasFile = TRUE, !.selectedIndexes = <<>>]
             ELSE ui
    /\ hook' = IF file = "valid" THEN parsePsdFile(hook) ELSE hook

\* handleFileChange(event, onSuccess, onError)
HandleFileChange ==
    /\ \E file \in Files : OfferFile(file)
    /\ UNCHANGED <<parseVars, exportVars, pureVars, diskVars, preview, drag>>

\* handleDragEnter(e); hasItems: e.dataTransfer.items has an item
HandleDragEnter ==
    /\ drag.counter < MaxDragDepth
    /\ \E hasItems \in BOOLEAN :
        drag' = [counter |-> drag.counter + 1,
                 isDragging |-> IF hasItems THEN TRUE ELSE drag.isDragging]
    /\ UNCHANGED <<parseVars, exportVars, ui, pureVars, diskVars, preview, hook>>

\* handleDragLeave(e)
HandleDragLeave ==
    /\ drag.counter > -MaxDragDepth
    /\ drag' = [counter |-> drag.counter - 1,
                isDragging |-> IF drag.counter - 1 = 0 THEN FALSE ELSE drag.isDragging]
    /\ UNCHANGED <<parseVars, exportVars, ui, pureVars, diskVars, preview, hook>>

\* handleDrop(e, onSuccess, onError)
HandleDrop ==
    /\ drag' = [counter |-> 0, isDragging |-> FALSE]
    /\ \E file \in Files : OfferFile(file)
    /\ UNCHANGED <<parseVars, exportVars, pureVars, diskVars, preview>>

\* await extractLayerTree(file) resolves in call c; hasImage: data.psdImageUrl
ParseResolves ==
    /\ \E c \in PendingCalls, hasImage \in BOOLEAN :
        hook' = [hook EXCEPT !.layers = c, !.layerTree = c, !.psdInfo = c,
                             !.psdPreviewUrl = IF hasImage THEN c ELSE 0,
                             !.loading = FALSE,
                             !.calls[c] = IF hasImage THEN "resolved" ELSE "resolvedNoImage"]
    /\ UNCHANGED <<parseVars, exportVars, ui, pureVars, diskVars, preview, drag>>

\* await extractLayerTree(file) rejects in call c: setError, finally, and the
\* catch of handleFileSelect
ParseRejects ==
    /\ \E c \in PendingCalls :
        hook' = [hook EXCEPT !.error = c, !.loading = FALSE, !.calls[c] = "rejected"]
    /\ ui' = [ui EXCEPT !.hasFile = FALSE, !.alert = "error"]
    /\ UNCHANGED <<parseVars, exportVars, pureVars, diskVars, preview, drag>>

NextUpload ==
    \/ HandleFileChange
    \/ HandleDragEnter
    \/ HandleDragLeave
    \/ HandleDrop
    \/ ParseResolves
    \/ ParseRejects

SpecUpload == InitUpload /\ [][NextUpload]_vars

(***************************************************************************)
(* Compositing runs: the extractions applied to documents whose rasters    *)
(* lie at different places, some with a bounding box that has no area      *)
(***************************************************************************)
\* Leaves of the compositing runs: rasters with a box at the origin, a box
\* away from it, no box and a box without height; a layer without raster.
CompositeLeaves ==
    {PsdLayer(<<"a">>, FALSE, TRUE, "layer", TRUE, FALSE, b, 255) :
        b \in {UnitBox, FarBox, ZeroBox, LineBox}}
    \cup {PsdLayer(<<"c">>, FALSE, TRUE, "layer", FALSE, FALSE, LineBox, 255)}

CompositeDocuments == Documents(MaxCompositeNodes, CompositeLeaves, ExportGroups)

InitComposite ==
    /\ doc \in CompositeDocuments
    /\ tree = <<>>
    /\ layers = <<>>
    /\ psdLayers = <<>>
    /\ parsed = {}
    /\ call = IdleCall
    /\ tasks = <<>>
    /\ cur = IdleOp
    /\ tally = ZeroTally
    /\ log = <<>>
    /\ result = NoResult
    /\ ui = IdleUi
    /\ arg = NoArg
    /\ ret = NoRet
    /\ disk = FreeDisk
    /\ runs = <<>>
    /\ preview = NoPreview
    /\ hook = IdleHook
    /\ drag = IdleDrag

SpecComposite == InitComposite /\ [][NextParser]_vars

(***************************************************************************)
(* Vocabulary of the properties                                            *)
(***************************************************************************)
\* every node of a document, groups before their children
RECURSIVE DocNodes(_)
DocNodes(forest) ==
    IF forest = <<>> THEN <<>>
    ELSE <<Head(forest)>> \o DocNodes(Head(forest).children) \o DocNodes(Tail(forest))

DocNode(id) == CHOOSE d \in {DocNodes(doc)[i] : i \in 1..Len(DocNodes(doc))} : d.id = id

TreeNodeSet(t) == {TreeNodes(t)[i] : i \in 1..Len(TreeNodes(t))}

\* the indexes of the nodes that are in the hidden set or below such a node
RECURSIVE HiddenSubtree(_, _)
HiddenSubtree(nodes, hiddenLayers) ==
    UNION {IF nodes[i].index \in hiddenLayers
           THEN TreeIndexes(<<nodes[i]>>)
           ELSE HiddenSubtree(nodes[i].children, hiddenLayers) : i \in 1..Len(nodes)}

LogSet == {log[k] : k \in 1..Len(log)}
CountedSet == {tally.counted[k] : k \in 1..Len(tally.counted)}

Returned(entry) == call.entry = entry /\ call.phase = "returned"
DestinationChosen == call.dest.kind = "string" /\ call.dest.path # <<>>

\* the operation that starts the export of one raster
IsFirstOp(e) == e.op \in EncodeOps

\* the nodes / items whose export was started, in the order it was started
Attempted == SelectSeq(log, IsFirstOp)

\* an operation that settled with a failure: a rejection, or a conversion
\* that came back empty
Failure(e) == e.outcome \in {"rejected", "null"}

\* the leaves below a group that count as visible: no node on the way down is
\* hidden or invisible, and the leaf has a raster, an extent or text
RECURSIVE VisibleLeafSet(_)
VisibleLeafSet(items) ==
    UNION {IF items[i].hidden \/ ~items[i].visible THEN {}
           ELSE IF items[i].children # <<>> THEN VisibleLeafSet(items[i].children)
           ELSE IF \/ items[i].canvas
                   \/ items[i].text
                   \/ items[i].right > items[i].left
                   \/ items[i].bottom > items[i].top
                THEN {items[i]}
                ELSE {} : i \in 1..Len(items)}

\* the leaves of a set whose bounding box has an area
WithArea(L) == {l \in L : l.right > l.left /\ l.bottom > l.top}

\* width and height of the bounding box of a non-empty set of leaves
BoxWidth(L) ==
    (CHOOSE r \in {l.right : l \in L} : \A l \in L : l.right <= r)
    - (CHOOSE x \in {l.left : l \in L} : \A l \in L : x <= l.left)
BoxHeight(L) ==
    (CHOOSE y \in {l.bottom : l \in L} : \A l \in L : l.bottom <= y)
    - (CHOOSE x \in {l.top : l \in L} : \A l \in L : x <= l.top)

\* the group entries of the flat list that stand for document node id
GroupEntries(id) == {k \in 1..Len(layers) : layers[k].isGroup /\ layers[k].src = id}

(***************************************************************************)
(* C1..C10                                                                 *)
(***************************************************************************)
\* C1: for every document the indexes buildLayerTree assigns to tree nodes are
\* exactly the positions 0..m-1 of the list flattenLayers makes of the same
\* document.
C1_TreeIndexesAreFlatPositions ==
    parsed = {"tree", "flat"} => TreeIndexes(tree) = 0..(Len(psdLayers) - 1)

\* C2: in the result of extractLayerTree every tree node that carries a raster
\* finds its own entry at layers[node.index]: same raster, same document node,
\* same name up to the "[Group] " prefix.
C2_IndexAddressesOwnLayer ==
    "tree" \in parsed =>
        \A n \in TreeNodeSet(tree) :
            n.imageUrl # NoUrl =>
                /\ InRange(layers, n.index)
                /\ At(layers, n.index).imageUrl = n.imageUrl
                /\ At(layers, n.index).src = n.src
                /\ At(layers, n.index).name \in {n.name, GroupPrefix \o n.name}

\* C3: a group whose visible leaves are exactly one non-group leaf that has
\* its own raster gets no composite from extractLayerTree: none on its tree
\* node and no "[Group]" entry in layers.
C3_SingleRasterLeafGroupHasNoComposite ==
    "tree" \in parsed =>
        \A n \in TreeNodeSet(tree) :
            (/\ n.isGroup
             /\ Len(getVisibleLeaves(DocNode(n.src).children)) = 1
             /\ getVisibleLeaves(DocNode(n.src).children)[1].canvas
             /\ ~IsGroup(getVisibleLeaves(DocNode(n.src).children)[1]))
            => /\ n.imageUrl = NoUrl
               /\ \A k \in 1..Len(layers) : ~(layers[k].isGroup /\ layers[k].src = n.src)

\* C4: in the hierarchical export no collaborator operation is ever issued for
\* a node whose index is in the hidden set, or for a node below it, and no
\* such node is counted in success or failed.
C4_HiddenSubtreeUntouched ==
    call.entry = "hier" =>
        /\ \A e \in LogSet : e.who \notin HiddenSubtree(call.tree, call.hidden)
        /\ \A c \in CountedSet : c.who \notin HiddenSubtree(call.tree, call.hidden)

\* C4 witness: an export into a chosen folder returned whose hidden set named
\* a group with a raster leaf below it, the leaf itself not in the set.
C4_Witness ==
    /\ Returned("hier")
    /\ DestinationChosen
    /\ \E n \in TreeNodeSet(call.tree) :
        /\ n.index \in call.hidden
        /\ n.isGroup
        /\ \E m \in TreeNodeSet(n.children) :
            m.imageUrl # NoUrl /\ m.index \notin call.hidden

\* C5: in the application neither export flow writes a file for a layer whose
\* index is in the user's hidden set.
C5_AppExportsNoHiddenLayer ==
    ui.exporting =>
        \A e \in LogSet : e.op = "writeFile" => e.who \notin ui.hiddenLayers

\* C6: a flat export into a chosen folder starts every item, in list order,
\* whatever failed before, and returns failed = the number of items on which
\* an operation raised and success = the number of the others.
C6_FlatTalliesEveryItem ==
    (Returned("flat") /\ DestinationChosen) =>
        /\ [k \in 1..Len(Attempted) |-> Attempted[k].who]
             = [k \in 1..Len(call.items) |-> call.items[k].who]
        /\ result.failed = Cardinality({e.who : e \in {x \in LogSet : x.outcome = "rejected"}})
        /\ result.success = Len(call.items) - result.failed

\* C6 witness: a flat export of two items returned after the first item
\* failed and the second one succeeded.
C6_Witness ==
    /\ Returned("flat")
    /\ Len(call.items) = 2
    /\ Len(tally.counted) = 2
    /\ tally.counted[1].as = "failed"
    /\ result.failed = 1
    /\ result.success = 1

\* C7: in the hierarchical export every node at which an operation failed
\* (exists, mkdir, encode, write) is counted in failed, the nodes after it are
\* still visited, and the call returns its tallies.
C7_EveryFailureCounted ==
    (Returned("hier") /\ DestinationChosen) =>
        /\ result.failed =
             Cardinality({<<e.who, e.part>> : e \in {x \in LogSet : Failure(x)}})
        /\ \A i \in 1..Len(call.tree) :
            (call.tree[i].index \notin call.hidden
             /\ (call.tree[i].isGroup \/ call.tree[i].layer.imageUrl # NoUrl))
            => \E e \in LogSet : e.who = call.tree[i].index

\* C8: when the picker returns null or something that is not a string, either
\* export returns {success: 0, failed: 0} and has issued no operation.
C8_NoDestinationNoWork ==
    (call.phase \in {"running", "returned"} /\ call.dest.kind # "string") =>
        /\ call.phase = "returned"
        /\ result = ZeroResult
        /\ log = <<>>
        /\ tally = ZeroTally

\* C8 witness: a flat export of at least one item ended on a picker that
\* returned an array.
C8_Witness ==
    /\ Returned("flat")
    /\ call.dest.kind = "array"
    /\ call.items # <<>>

\* C9: exporting a tree as buildLayerTree built it, with every operation
\* succeeding, writes for every group that has a composite and is not hidden
\* the file sanitized-name.ext beside the group's folder and counts it.
C9_GroupCompositeExported ==
    (Returned("hier") /\ DestinationChosen /\ call.tree = tree
     /\ \A e \in LogSet : ~Failure(e)) =>
        \A n \in TreeNodeSet(call.tree) :
            (n.isGroup /\ n.imageUrl # NoUrl
             /\ n.index \notin HiddenSubtree(call.tree, call.hidden))
            => /\ \E e \in LogSet :
                    /\ e.op = "writeFile"
                    /\ e.who = n.index
                    /\ e.part = "composite"
                    /\ \E f \in LogSet :
                        /\ f.who = n.index
                        /\ f.op = "exists"
                        /\ e.path = f.path \o <<".">> \o FormatText(call.format)
               /\ \E c \in CountedSet : c.who = n.index /\ c.part = "composite"

\* C10: in either export and for every format, a node or item whose raster
\* failed to encode / convert is counted in failed and not in success.
C10_EncodeFailureCountsAsFailed ==
    call.phase = "returned" =>
        \A e \in LogSet :
            (e.op \in EncodeOps /\ Failure(e)) =>
                /\ [who |-> e.who, part |-> e.part, as |-> "failed"] \in CountedSet
                /\ [who |-> e.who, part |-> e.part, as |-> "success"] \notin CountedSet

(***************************************************************************)
(* C11..C20                                                                *)
(***************************************************************************)
\* C11: a group has a composite raster only if the bounding box of its
\* visible leaves that have an area has positive width and height; a group
\* with no visible leaf has no composite and no entry of its own in layers.
C11_CompositeOnlyWithPositiveBox ==
    "tree" \in parsed =>
        \A n \in TreeNodeSet(tree) :
            n.isGroup =>
                LET L == VisibleLeafSet(DocNode(n.src).children)
                    A == WithArea(L)
                IN  /\ n.imageUrl # NoUrl =>
                        (A # {} /\ BoxWidth(A) > 0 /\ BoxHeight(A) > 0)
                    /\ L = {} => (n.imageUrl = NoUrl /\ GroupEntries(n.src) = {})

\* C11 witness: a tree with a group that has a composite and a group whose
\* children are all hidden, which has none.
C11_Witness ==
    /\ "tree" \in parsed
    /\ \E n \in TreeNodeSet(tree) : n.isGroup /\ n.imageUrl # NoUrl
    /\ \E n \in TreeNodeSet(tree) :
        /\ n.isGroup
        /\ VisibleLeafSet(DocNode(n.src).children) = {}
        /\ n.imageUrl = NoUrl

\* C12: every leaf node of the tree stands for a document leaf that has a
\* raster, or a bounding box with an area (width > 0 and height > 0), or text.
C12_LeafEmittedOnlyWithContent ==
    "tree" \in parsed =>
        \A n \in TreeNodeSet(tree) :
            ~n.isGroup =>
                \/ DocNode(n.src).canvas
                \/ DocNode(n.src).text
                \/ /\ DocNode(n.src).right > DocNode(n.src).left
                   /\ DocNode(n.src).bottom > DocNode(n.src).top

\* the ids of the document nodes that are hidden at the source (hidden, or
\* not visible) and of the nodes below them
RECURSIVE SourceHidden(_)
SourceHidden(forest) ==
    UNION {IF forest[i].hidden \/ ~forest[i].visible
           THEN {DocNodes(<<forest[i]>>)[k].id : k \in 1..Len(DocNodes(<<forest[i]>>))}
           ELSE SourceHidden(forest[i].children) : i \in 1..Len(forest)}

\* C13: no document node hidden at the source, and no node below one, is in
\* the tree, in layers, or drawn into a group composite.
C13_SourceHiddenNowhere ==
    "tree" \in parsed =>
        /\ \A n \in TreeNodeSet(tree) :
            /\ n.src \notin SourceHidden(doc)
            /\ \A k \in 1..Len(n.imageUrl.drawn) :
                n.imageUrl.drawn[k].id \notin SourceHidden(doc)
        /\ \A k \in 1..Len(layers) : layers[k].src \notin SourceHidden(doc)

\* sanitizeFileName has returned
Sanitized == ret.fn = "sanitizeFileName"

\* C14: for a name made only of illegal characters and whitespace, the empty
\* name included, sanitizeFileName returns "untitled".
C14_OnlyIllegalGivesUntitled ==
    (Sanitized /\ \A i \in 1..Len(arg.name) : arg.name[i] \in IllegalChars \cup Whitespace)
        => ret.value = Untitled

\* C15: the result of sanitizeFileName is never empty and holds no illegal
\* character and no whitespace.
C15_SanitizedIsClean ==
    Sanitized =>
        /\ ret.value # <<>>
        /\ \A i \in 1..Len(ret.value) : ret.value[i] \notin IllegalChars \cup Whitespace

\* C15 witness: a name with a plain character, an illegal one and whitespace
\* has been sanitized.
C15_Witness ==
    /\ Sanitized
    /\ \E i, j, k \in 1..Len(arg.name) :
        /\ arg.name[i] \in IllegalChars
        /\ arg.name[j] \in Whitespace
        /\ arg.name[k] \notin IllegalChars \cup Whitespace

\* the writeFile operations issued so far, in order
Writes == SelectSeq(log, LAMBDA e : e.op = "writeFile")

\* path names the file sanitized-name.ext directly in the chosen folder
InChosenFolder(path, name) ==
    \E sep \in {<<"/">>, <<"\\">>} :
        path = call.dest.path \o sep \o sanitizeFileName(name) \o <<".">>
                 \o FormatText(call.format)

\* C16: a flat export into a chosen folder in which every item succeeded has
\* written its N items to N pairwise distinct paths folder/sanitized-name.ext
\* directly in the folder: as many files as the reported success count.
C16_FlatWritesDistinctFiles ==
    (Returned("flat") /\ DestinationChosen /\ \A e \in LogSet : ~Failure(e)) =>
        /\ Len(Writes) = Len(call.items)
        /\ \A k \in 1..Len(Writes) :
            /\ Writes[k].who = call.items[k].who
            /\ InChosenFolder(Writes[k].path, call.items[k].name)
        /\ \A j, k \in 1..Len(Writes) : j # k => Writes[j].path # Writes[k].path
        /\ result.success = Cardinality({Writes[k].path : k \in 1..Len(Writes)})

\* C17: mkdir is issued for a folder only right after exists answered false
\* for it; and the same hierarchical export made a second time into the same
\* destination, nothing failing, returns the tallies of the first and leaves
\* the folders and files the first one left, with no failure.
C17_CheckThenCreateIsIdempotent ==
    /\ \A k \in 1..Len(log) :
        log[k].op = "mkdir" =>
            /\ k > 1
            /\ log[k - 1].op = "exists"
            /\ log[k - 1].path = log[k].path
            /\ log[k - 1].outcome = "false"
    /\ (Returned("hier") /\ DestinationChosen /\ runs # <<>> /\ runs[1].dest = call.dest) =>
        /\ result = runs[1].result
        /\ disk.dirs = runs[1].dirs
        /\ disk.files = runs[1].files
        /\ \A e \in LogSet : ~Failure(e)
        /\ \A e \in LogSet : e.op # "mkdir"

\* C17 witness: the second of two exports of a tree with a group and a raster
\* below it, into the same folder, has returned.
C17_Witness ==
    /\ Returned("hier")
    /\ DestinationChosen
    /\ runs # <<>>
    /\ runs[1].dest = call.dest
    /\ runs[1].dirs # {}
    /\ runs[1].files # {}
    /\ \E e \in LogSet : e.op = "exists" /\ e.outcome = "true"

\* the little-endian unsigned number of n bytes at offset off of bytes
RECURSIVE LittleEndian(_, _, _)
LittleEndian(bytes, off, n) ==
    IF n = 0 THEN 0 ELSE At(bytes, off) + 256 * LittleEndian(bytes, off + 1, n - 1)

\* C18: for an RGBA image of width w and height h below 65536 encodeTga
\* returns 18 + 4wh bytes: image type 2, colour-map fields zero, w and h as
\* little-endian 16-bit numbers at 12 and 14, depth 32, descriptor 0x28, and
\* pixel i of the source, top row first, as B, G, R, A at 18 + 4i.
C18_TgaLayout ==
    ret.fn = "encodeTga" =>
        LET w == arg.imageData.width
            h == arg.imageData.height
            data == arg.imageData.data
            out == ret.value
        IN  /\ Len(out) = 18 + 4 * w * h
            /\ At(out, 2) = 2
            /\ \A k \in {0, 1, 3, 4, 5, 6, 7} : At(out, k) = 0
            /\ LittleEndian(out, 12, 2) = w
            /\ LittleEndian(out, 14, 2) = h
            /\ At(out, 16) = 32
            /\ At(out, 17) = 40
            /\ \A i \in 0..(w * h - 1) :
                /\ At(out, 18 + 4 * i) = At(data, 4 * i + 2)
                /\ At(out, 18 + 4 * i + 1) = At(data, 4 * i + 1)
                /\ At(out, 18 + 4 * i + 2) = At(data, 4 * i)
                /\ At(out, 18 + 4 * i + 3) = At(data, 4 * i + 3)

\* C18 witness: an image more than 255 pixels wide, with pixels, was encoded.
C18_Witness ==
    /\ ret.fn = "encodeTga"
    /\ arg.imageData.width > 255
    /\ arg.imageData.height > 0

\* C19: encodeBlp returns 156 + len(p) bytes: "BLP1", then the little-endian
\* 32-bit fields 0, 0, width, height, 5, 1, the first mipmap offset 156 and
\* the first mipmap length len(p), the other fifteen offsets and lengths
\* zero, and the payload p from byte 156 on.
C19_BlpLayout ==
    ret.fn = "encodeBlp" =>
        LET p == arg.jpegData
            out == ret.value
        IN  /\ Len(out) = 156 + Len(p)
            /\ <<At(out, 0), At(out, 1), At(out, 2), At(out, 3)>> = <<66, 76, 80, 49>>
            /\ LittleEndian(out, 4, 4) = 0
            /\ LittleEndian(out, 8, 4) = 0
            /\ LittleEndian(out, 12, 4) = arg.width
            /\ LittleEndian(out, 16, 4) = arg.height
            /\ LittleEndian(out, 20, 4) = 5
            /\ LittleEndian(out, 24, 4) = 1
            /\ LittleEndian(out, 28, 4) = 156
            /\ LittleEndian(out, 92, 4) = Len(p)
            /\ \A slot \in 1..15 :
                /\ LittleEndian(out, 28 + 4 * slot, 4) = 0
                /\ LittleEndian(out, 92 + 4 * slot, 4) = 0
            /\ \A k \in 1..Len(p) : At(out, 156 + k - 1) = p[k]

\* C19 witness: a payload of two bytes was wrapped for an image whose width
\* and height need several bytes of their fields.
C19_Witness ==
    /\ ret.fn = "encodeBlp"
    /\ Len(arg.jpegData) = 2
    /\ arg.width = 65536
    /\ arg.height = 2147483647

\* C20: the index of every tree node is the number of nodes before it in
\* post-order, so the indexes are 0..n-1 without gap or repeat, and the index
\* of a group is greater than that of every node below it.
C20_IndexesArePostOrderPositions ==
    "tree" \in parsed =>
        /\ \A k \in 1..Len(TreeNodes(tree)) : TreeNodes(tree)[k].index = k - 1
        /\ Cardinality(TreeIndexes(tree)) = Len(TreeNodes(tree))
        /\ \A n \in TreeNodeSet(tree) :
            \A m \in TreeNodeSet(n.children) : m.index < n.index

\* C20 witness: a tree of three nodes in which a group lies in a group.
C20_Witness ==
    /\ "tree" \in parsed
    /\ Len(TreeNodes(tree)) = 3
    /\ \E n \in TreeNodeSet(tree) :
        \E m \in TreeNodeSet(n.children) : m.isGroup /\ m.children # <<>>

(***************************************************************************)
(* C21..C30                                                                *)
(***************************************************************************)
\* the operations that were issued and have not settled
InFlight == {k \in 1..Len(log) : log[k].outcome = "pending"}

\* depth-first document order of a tree: for a group its folder, then what
\* lies below it, child by child, then its composite
RECURSIVE DepthFirstOrder(_)
DepthFirstOrder(nodes) ==
    IF nodes = <<>> THEN <<>>
    ELSE LET n == Head(nodes)
         IN  (IF n.isGroup
              THEN <<[who |-> n.index, part |-> "folder"]>>
                   \o DepthFirstOrder(n.children)
                   \o <<[who |-> n.index, part |-> "composite"]>>
              ELSE <<[who |-> n.index, part |-> "leaf"]>>)
             \o DepthFirstOrder(Tail(nodes))

\* the order in which the running call has to serve its nodes or items
ServingOrder ==
    IF call.entry = "hier" THEN DepthFirstOrder(call.tree)
    ELSE [k \in 1..Len(call.items) |-> [who |-> call.items[k].who, part |-> "item"]]

Served(e) == [who |-> e.who, part |-> e.part]
Place(e) == CHOOSE p \in 1..Len(ServingOrder) : ServingOrder[p] = Served(e)

\* within one node: the check before the creation, the encoding before the write
OpRank(op) == IF op \in {"mkdir", "writeFile"} THEN 2 ELSE 1

\* the same operation issued with the same arguments
SameIssue(d, e) ==
    d.op = e.op /\ d.path = e.path /\ d.who = e.who /\ d.part = e.part /\ d.data = e.data

\* the second of two equal calls is under way: the first k operations of both
\* settled alike
Replaying == runs # <<>> /\ call.phase \in {"running", "returned"} /\ runs[1].dest = call.dest
AgreeBefore(k) == \A j \in 1..(k - 1) : log[j].outcome = runs[1].log[j].outcome

SizedPlaces ==
    SelectSeq([k \in 1..Len(preview.layers) |-> k], LAMBDA k : Sized(preview.layers[k]))

\* the loads that ended with the image loaded
Loaded == SelectSeq(preview.loads, LAMBDA l : l.outcome = "loaded")

\* C22: generateGroupPreview loads the visible leaves one at a time in
\* document order: only the load started last can be unsettled; and once at
\* least one load was started the call returns a composite, not null, after
\* having tried every leaf that has a size, and the composite holds exactly
\* the leaves whose load succeeded, in document order.
C22_LeavesDrawnOneAtATime ==
    /\ \A k \in 1..Len(preview.loads) :
        preview.loads[k].outcome = "pending" =>
            k = Len(preview.loads) /\ preview.phase = "loading"
    /\ \A j, k \in 1..Len(preview.loads) :
        j < k => preview.loads[j].at < preview.loads[k].at
    /\ (preview.phase = "returned" /\ preview.loads # <<>>) =>
        /\ preview.ret # NoUrl
        /\ [k \in 1..Len(preview.loads) |-> preview.loads[k].at] = SizedPlaces
        /\ [k \in 1..Len(preview.ret.drawn) |-> preview.ret.drawn[k].id]
            = [k \in 1..Len(Loaded) |-> preview.layers[Loaded[k].at].imageUrl.owner]

\* C22 witness: a preview returned after the load of one leaf failed and the
\* load of a later leaf succeeded.
C22_Witness ==
    /\ preview.phase = "returned"
    /\ preview.ret # NoUrl
    /\ \E j, k \in 1..Len(preview.loads) :
        /\ j < k
        /\ preview.loads[j].outcome = "failed"
        /\ preview.loads[k].outcome = "loaded"

\* the boxes of the layers given to calculateGroupBounds that have a width
\* and a height
SizedBoxes ==
    {b \in {getLayerBounds(arg.layers[i]) : i \in 1..Len(arg.layers)} :
        b.width > 0 /\ b.height > 0}

\* the least / greatest member of a non-empty set of numbers
Least(S) == CHOOSE x \in S : \A y \in S : x <= y
Greatest(S) == CHOOSE x \in S : \A y \in S : y <= x

BlendAlpha(o) == IF o > 1 THEN o ELSE 255 * o

\* C24: for every raw opacity o of 0..255 the blend alpha of a leaf drawn into
\* a group composite is o/255 when o > 1 and o itself when o <= 1 (as an
\* integer scaled by 255: o, and 255 * o), in buildLayerTree, in
\* generateGroupPreview and through getLayerOpacity; 255 gives 1, 128 gives
\* 128/255.
C24_BlendAlphaOfOpacity ==
    ret # NoRet =>
        /\ ret.inTree = BlendAlpha(arg.opacity)
        /\ ret.inPreview = BlendAlpha(arg.opacity)
        /\ ret.viaLayerUtils = BlendAlpha(arg.opacity)
        /\ arg.opacity = 255 => ret.inTree = 255 /\ ret.inPreview = 255
        /\ arg.opacity = 128 => ret.inTree = 128 /\ ret.inPreview = 128

\* C24 witness: a leaf of opacity 1 was drawn at full alpha.
C24_Witness ==
    /\ ret # NoRet
    /\ arg.opacity = 1
    /\ ret.inTree = 255
    /\ ret.inPreview = 255

\* the operations that hand a path to the file system
FsOps == {"exists", "mkdir", "writeFile"}

\* C25: every path an export call hands to exists, mkdir or writeFile is the
\* chosen destination followed by names joined with "/": it has no "\" in it.
C25_PathsJoinedWithSlash ==
    \A e \in LogSet :
        e.op \in FsOps =>
            /\ Len(e.path) > Len(call.dest.path)
            /\ SubSeq(e.path, 1, Len(call.dest.path) + 1) = call.dest.path \o <<"/">>
            /\ \A i \in 1..Len(e.path) : e.path[i] # "\\"

\* C26: in every state of the application every selected index is a position
\* of the current flat list: 0 <= i < layers.length.
C26_SelectionWithinLayers ==
    \A k \in 1..Len(ui.selectedIndexes) : InRange(layers, ui.selectedIndexes[k])

\* what the hook state has to be once call c, the last one started, settled
OutcomeOf(c) ==
    IF hook.calls[c] = "rejected"
    THEN [layers |-> 0, layerTree |-> 0, psdInfo |-> 0, psdPreviewUrl |-> 0, error |-> c]
    ELSE [layers |-> c, layerTree |-> c, psdInfo |-> c,
          psdPreviewUrl |-> IF hook.calls[c] = "resolved" THEN c ELSE 0, error |-> 0]

\* C27: loading is never false while a parsePsdFile call is in flight, and
\* once every call has settled layers, layerTree, psdInfo, psdPreviewUrl and
\* error are the outcome of the call started last.
C27_LastStartedParseWins ==
    /\ PendingCalls # {} => hook.loading
    /\ (hook.calls # <<>> /\ PendingCalls = {}) =>
        [layers |-> hook.layers, layerTree |-> hook.layerTree, psdInfo |-> hook.psdInfo,
         psdPreviewUrl |-> hook.psdPreviewUrl, error |-> hook.error]
            = OutcomeOf(Len(hook.calls))

\* C28: the drag counter is never negative, and isDragging is true only while
\* the counter is greater than 0.
C28_DragCounterNeverNegative ==
    /\ drag.counter >= 0
    /\ drag.isDragging => drag.counter > 0

\* C29: every leaf buildLayerTree draws into the composite of a group lies
\* inside the surface of the composite: its offset is not negative, and the
\* offset plus the size of its raster does not exceed the width and height
\* of the surface.
C29_DrawsInsideSurface ==
    \A n \in TreeNodeSet(tree) :
        (n.isGroup /\ n.imageUrl # NoUrl) =>
            \A k \in 1..Len(n.imageUrl.drawn) :
                LET d == n.imageUrl.drawn[k]
                IN  /\ d.x >= 0
                    /\ d.y >= 0
                    /\ d.x + DocNode(d.id).canvasWidth <= n.width
                    /\ d.y + DocNode(d.id).canvasHeight <= n.height

\* C30: when handleConfirmExport comes back from an export call for which a
\* destination was picked, an alert reports the outcome: the step that ends
\* the export leaves a success or an error alert on show, also when the call
\* returned success = 0 and failed = 0.
C30_ExportThatRanIsReported ==
    [][(ui.exporting /\ ~ui'.exporting /\ DestinationChosen)
        => ui'.alert \in {"success", "error"}]_vars

====
